---- MODULE Spec2Model ----
(***************************************************************************)
(* Play accounting, streak/multiplier engine and weekly rollover sweep of  *)
(* the game backend (GameService, ReferralService, WeeklyResetService).    *)
(*                                                                         *)
(* The database tables are the variables settings, players, sessions,      *)
(* streaks, snapshots and referrals; the shared Redis cache is             *)
(* playerCache (keys player:<wallet>) and settingsCache (key               *)
(* game:settings).  Time is the wall clock in milliseconds.  Multipliers   *)
(* are kept in tenths (1.0 = 10, 0.1 = 1) so that the floor of             *)
(* score * multiplier is exact integer arithmetic.                         *)
(***************************************************************************)
EXTENDS Integers, Sequences, FiniteSets, TLC

VARIABLES now, settings, settingsCache, players, playerCache, sessions,
          streaks, snapshots, referrals, lastOp, lastStatus, procs, epoch,
          calc

vars == <<now, settings, settingsCache, players, playerCache, sessions,
          streaks, snapshots, referrals, lastOp, lastStatus, procs, epoch, calc>>

-----------------------------------------------------------------------------
(* Bounds of the model *)

\* configured length of a virtual day, settings.secondsPerDay
SecondsPerDay == 1
\* horizon of the wall clock, in virtual days after launch
MaxDays == 3
\* horizon of the two-wallet specification, in virtual days
MaxPairDays == 1
\* horizon of the weekly specification, in weeks
MaxWeeks == 2
\* total number of PlaySession rows the model lets exist
MaxSessions == 3
\* total number of PlaySession rows in the weekly specification
MaxWeeklySessions == 2
\* settings.referralExtraPlays, the size of a referral grant
ReferralExtraPlays == 1
\* horizon of the referral specification, in virtual days
MaxReferralDays == 1
\* size of the referral grant held when concurrent submissions start
RaceExtraPlays == 2
\* total number of PlaySession rows concurrent submissions may create
MaxRaceSessions == 3
\* total number of PlaySession rows while sweeps and submissions interleave
MaxSweepRaceSessions == 2
\* horizon of the interleaved sweeps, in weeks
MaxRaceWeeks == 1

\* wallet addresses as the clients send them; the two differ only in case
Wallets == {"0xab", "0xAB"}
\* raw scores a client submits
Scores == {15}

-----------------------------------------------------------------------------
(* Program constants *)

\* a database NULL in an integer column
NULL == 0 - 1
\* settings.streakBaseMultiplier (1.0) and streakIncrementPerDay (0.1), in tenths
StreakBaseMultiplier == 10
StreakIncrementPerDay == 1
\* the multiplier 1.0 in tenths, the denominator of every multiplier
Tenths == 10
\* days in a week
DaysPerWeek == 7
\* launch midnight (settings.launchDate with setUTCHours(0,0,0,0))
launchMs == 0

Max(a, b) == IF a >= b THEN a ELSE b
Min(a, b) == IF a <= b THEN a ELSE b

\* String.prototype.toLowerCase on the wallet addresses of the model
ToLowerCase(w) == IF w = "0xAB" THEN "0xab" ELSE w

-----------------------------------------------------------------------------
(* Clock / calendar policy *)

getDayDurationMs == (IF SecondsPerDay > 0 THEN SecondsPerDay ELSE 86400) * 1000

dayMs == getDayDurationMs

\* granularity of the wall clock within a virtual day
halfDayMs == dayMs \div 2

\* Math.max(0, Math.floor((t - launchMs) / dayMs))
DaysSinceLaunch(t) == Max(0, (t - launchMs) \div dayMs)

\* getGameDayInfo: today, yesterday, nextDayStart, daysSinceLaunch
\* variant of the day information whose next day starts one day length from t
getGameDayInfo_Rolling(t) ==
    LET d == DaysSinceLaunch(t)
        todayMs == launchMs + d * dayMs
    IN  [today |-> todayMs, yesterday |-> todayMs - dayMs,
         nextDayStart |-> t + dayMs, daysSinceLaunch |-> d]

getGameDayInfo(t) ==
    LET d == DaysSinceLaunch(t)
        todayMs == launchMs + d * dayMs
    IN  [today |-> todayMs, yesterday |-> todayMs - dayMs,
         nextDayStart |-> todayMs + dayMs, daysSinceLaunch |-> d]

normalizeToVirtualDay(t) == launchMs + DaysSinceLaunch(t) * dayMs

\* GameService.calculateWeekNumber, virtual mode
calculateWeekNumber(t) == ((t - launchMs) \div dayMs) \div DaysPerWeek

\* WeeklyResetService.calculateCurrentWeekNumber, virtual mode
calculateCurrentWeekNumber(t) == ((t - launchMs) \div dayMs) \div DaysPerWeek

\* variant of the multiplier that pays the increment from the first day on
calculateStreakMultiplierFor_FromDayOne(s, streak) ==
    IF streak <= 0 THEN s.streakBaseMultiplier
    ELSE s.streakBaseMultiplier + streak * s.streakIncrementPerDay

\* GameService.calculateStreakMultiplier(settings, streak), in tenths
calculateStreakMultiplierFor(s, streak) ==
    IF streak <= 1 THEN s.streakBaseMultiplier
    ELSE s.streakBaseMultiplier + (streak - 1) * s.streakIncrementPerDay

\* the multiplier under the default settings
calculateStreakMultiplier(streak) ==
    calculateStreakMultiplierFor(
        [streakBaseMultiplier |-> StreakBaseMultiplier,
         streakIncrementPerDay |-> StreakIncrementPerDay], streak)

\* Math.floor(score * multiplier)
FinalScore(score, multiplier) == (score * multiplier) \div Tenths

-----------------------------------------------------------------------------
(* Rows and queries *)

\* the Player row findOrCreatePlayer inserts for an unknown wallet
\* variant of the created row that starts with a one-day streak
NewPlayer_Seeded(w) ==
    [id |-> Cardinality(DOMAIN players) + 1, walletAddress |-> w,
     totalScore |-> 0, currentStreak |-> 1, longestStreak |-> 1,
     lifetimeTotalScore |-> 0, weeklyScore |-> 0, weeklyStreak |-> 0,
     weeklyLongestStreak |-> 0, lastPlayDate |-> NULL,
     lastResetWeekNumber |-> NULL]

NewPlayer(w) ==
    [id |-> Cardinality(DOMAIN players) + 1, walletAddress |-> w,
     totalScore |-> 0, currentStreak |-> 0, longestStreak |-> 0,
     lifetimeTotalScore |-> 0, weeklyScore |-> 0, weeklyStreak |-> 0,
     weeklyLongestStreak |-> 0, lastPlayDate |-> NULL,
     lastResetWeekNumber |-> NULL]

\* findOrCreatePlayer: the Player table after the call
PlayersAfterFind(w) ==
    IF w \in DOMAIN playerCache \/ w \in DOMAIN players THEN players
    ELSE players @@ (w :> NewPlayer(w))

\* findOrCreatePlayer: the row it returns, the cached copy when there is one
findOrCreatePlayer(w) ==
    IF w \in DOMAIN playerCache THEN playerCache[w] ELSE PlayersAfterFind(w)[w]

\* findOrCreatePlayer: the cache after the call
CacheAfterFind(w) ==
    IF w \in DOMAIN playerCache THEN playerCache
    ELSE playerCache @@ (w :> findOrCreatePlayer(w))

\* cacheManager.del(`player:${walletAddress}`)
CacheDel(cache, w) == [x \in DOMAIN cache \ {w} |-> cache[x]]

\* getSettings: the cached row unless the database row is newer
getSettings ==
    IF settingsCache # << >> /\ ~(settings.updatedAt > settingsCache[1].updatedAt)
    THEN settingsCache[1] ELSE settings

\* getSettings: the cache after the call
SettingsCacheAfterGet == <<getSettings>>

\* ids the Player table hands out, in creation order
PlayerIds == 1..Cardinality(Wallets)

\* prisma.gameSession.count({playerId, playDate >= normalizedLaunchDate});
\* the GameSession table is kept as one list of rows per playerId
CountSessions(ss, playerId) ==
    Cardinality({i \in 1..Len(ss[playerId]) :
        ss[playerId][i].playDate >= normalizeToVirtualDay(launchMs)})

RECURSIVE SumLen(_, _)
SumLen(ss, ids) ==
    IF ids = {} THEN 0
    ELSE LET i == CHOOSE x \in ids : TRUE
         IN  Len(ss[i]) + SumLen(ss, ids \ {i})

\* number of rows of the GameSession table
TotalSessions(ss) == SumLen(ss, DOMAIN ss)

\* prisma.referralCode.findUnique({walletAddress: walletAddress.toLowerCase()})
HasReferral(w) == ToLowerCase(w) \in DOMAIN referrals
Referral(w) == referrals[ToLowerCase(w)]

-----------------------------------------------------------------------------
(* Play-quota engine and projected streak: GameService.getPlayerStatus *)

\* variant of the quota with one more base play per day than the code allows
PlaysRemainingOf_ExtraBasePlay(daysSinceLaunch, totalPlaysUsed, hasReferral, extraPlaysTotal, extraPlaysUsed) ==
    LET basePlaysAllowed == Max(1, daysSinceLaunch + 2)
        referralPlaysUsed == IF hasReferral THEN extraPlaysUsed ELSE 0
        referralExtraPlaysRemaining ==
            IF hasReferral THEN Max(0, extraPlaysTotal - extraPlaysUsed) ELSE 0
        safeReferralPlaysUsed == Min(referralPlaysUsed, totalPlaysUsed)
        basePlaysUsed == Max(0, totalPlaysUsed - safeReferralPlaysUsed)
        basePlaysRemaining == Max(0, basePlaysAllowed - basePlaysUsed)
    IN  basePlaysRemaining + referralExtraPlaysRemaining

\* variant of the quota in which a referral grant is never used up
PlaysRemainingOf_GrantNeverSpent(daysSinceLaunch, totalPlaysUsed, hasReferral, extraPlaysTotal, extraPlaysUsed) ==
    LET basePlaysAllowed == Max(1, daysSinceLaunch + 1)
        referralPlaysUsed == IF hasReferral THEN extraPlaysUsed ELSE 0
        referralExtraPlaysRemaining == IF hasReferral THEN extraPlaysTotal ELSE 0
        safeReferralPlaysUsed == Min(referralPlaysUsed, totalPlaysUsed)
        basePlaysUsed == Max(0, totalPlaysUsed - safeReferralPlaysUsed)
        basePlaysRemaining == Max(0, basePlaysAllowed - basePlaysUsed)
    IN  basePlaysRemaining + referralExtraPlaysRemaining

\* variant of the quota that charges referral plays to the base allowance
PlaysRemainingOf_ReferralChargedToBase(daysSinceLaunch, totalPlaysUsed, hasReferral, extraPlaysTotal, extraPlaysUsed) ==
    LET basePlaysAllowed == Max(1, daysSinceLaunch + 1)
        referralExtraPlaysRemaining ==
            IF hasReferral THEN Max(0, extraPlaysTotal - extraPlaysUsed) ELSE 0
        basePlaysUsed == totalPlaysUsed
        basePlaysRemaining == Max(0, basePlaysAllowed - basePlaysUsed)
    IN  basePlaysRemaining + referralExtraPlaysRemaining

\* playsRemaining as the status call computes it, step by step
PlaysRemainingOf(daysSinceLaunch, totalPlaysUsed, hasReferral, extraPlaysTotal, extraPlaysUsed) ==
    LET basePlaysAllowed == Max(1, daysSinceLaunch + 1)
        referralPlaysUsed == IF hasReferral THEN extraPlaysUsed ELSE 0
        referralExtraPlaysRemaining ==
            IF hasReferral THEN Max(0, extraPlaysTotal - extraPlaysUsed) ELSE 0
        safeReferralPlaysUsed == Min(referralPlaysUsed, totalPlaysUsed)
        basePlaysUsed == Max(0, totalPlaysUsed - safeReferralPlaysUsed)
        basePlaysRemaining == Max(0, basePlaysAllowed - basePlaysUsed)
    IN  basePlaysRemaining + referralExtraPlaysRemaining

\* getPlayerStatus: the streak a play made now would be multiplied by
\* (forMultiplier) and would result in (forDisplay)
ProjectedStreak(lastPlayDate, storedStreak, info) ==
    LET normalizedLastPlay ==
            IF lastPlayDate = NULL THEN NULL ELSE normalizeToVirtualDay(lastPlayDate)
        normalizedToday == normalizeToVirtualDay(info.today)
        normalizedYesterday == normalizeToVirtualDay(info.yesterday)
        wouldBeFirstPlayToday ==
            normalizedLastPlay = NULL \/ normalizedLastPlay < normalizedToday
    IN  IF wouldBeFirstPlayToday
        THEN IF normalizedLastPlay = NULL
             THEN [forMultiplier |-> 0, forDisplay |-> 1]
             ELSE IF normalizedLastPlay = normalizedYesterday
             THEN [forMultiplier |-> storedStreak, forDisplay |-> storedStreak + 1]
             ELSE [forMultiplier |-> 0, forDisplay |-> 1]
        ELSE [forMultiplier |-> storedStreak, forDisplay |-> storedStreak]

\* the response of getPlayerStatus for the row `player` returned by findOrCreatePlayer
getPlayerStatus(s, player, t) ==
    LET info == getGameDayInfo(t)
        totalPlaysUsed == CountSessions(sessions, player.id)
        hasReferral == HasReferral(player.walletAddress)
        playsRemaining ==
            PlaysRemainingOf(info.daysSinceLaunch, totalPlaysUsed, hasReferral,
                IF hasReferral THEN Referral(player.walletAddress).extraPlaysTotal ELSE 0,
                IF hasReferral THEN Referral(player.walletAddress).extraPlaysUsed ELSE 0)
        useWeeklyScores == s.weeklyResetEnabled
        storedStreak == IF useWeeklyScores THEN player.weeklyStreak ELSE player.currentStreak
        projected == ProjectedStreak(player.lastPlayDate, storedStreak, info)
    IN  [walletAddress |-> player.walletAddress,
         totalScore |-> IF useWeeklyScores THEN player.weeklyScore ELSE player.totalScore,
         lifetimeTotalScore |-> player.lifetimeTotalScore,
         currentStreak |-> projected.forDisplay,
         longestStreak |-> IF useWeeklyScores THEN player.weeklyLongestStreak
                           ELSE player.longestStreak,
         playsRemaining |-> playsRemaining,
         canPlay |-> playsRemaining > 0,
         streakMultiplier |->
             calculateStreakMultiplier(projected.forMultiplier),
         nextAvailableAt |-> IF playsRemaining <= 0 THEN info.nextDayStart ELSE NULL,
         secondsToNextPlay |->
             IF playsRemaining <= 0 THEN Max(0, (info.nextDayStart - t) \div 1000) ELSE NULL,
         weeklyResetEnabled |-> useWeeklyScores]

-----------------------------------------------------------------------------
(* Streak and multiplier engine of the write path: GameService.submitScore *)

\* submitScore: the streak transition of one play for the cached row `player`
\* variant of the streak block whose consecutive-day multiplier is that of the
\* incremented streak
SubmitStreaks_IncrementedBasis(s, player, info) ==
    LET normalizedLastPlay ==
            IF player.lastPlayDate = NULL THEN NULL
            ELSE normalizeToVirtualDay(player.lastPlayDate)
        normalizedYesterday == normalizeToVirtualDay(info.yesterday)
        isFirstPlayToday == normalizedLastPlay = NULL \/ normalizedLastPlay < info.today
        currentStreak ==
            IF s.weeklyResetEnabled THEN player.weeklyStreak ELSE player.currentStreak
    IN  IF isFirstPlayToday
        THEN IF normalizedLastPlay = NULL
             THEN [isFirstPlayToday |-> TRUE, newStreak |-> 1,
                   newLifetimeStreak |-> 1, streakForMultiplier |-> 0]
             ELSE IF normalizedLastPlay = normalizedYesterday
             THEN [isFirstPlayToday |-> TRUE, newStreak |-> currentStreak + 1,
                   newLifetimeStreak |-> player.currentStreak + 1,
                   streakForMultiplier |-> currentStreak + 1]
             ELSE [isFirstPlayToday |-> TRUE, newStreak |-> 1,
                   newLifetimeStreak |-> 1, streakForMultiplier |-> 0]
        ELSE [isFirstPlayToday |-> FALSE, newStreak |-> currentStreak,
              newLifetimeStreak |-> player.currentStreak,
              streakForMultiplier |-> currentStreak]

SubmitStreaks(s, player, info) ==
    LET normalizedLastPlay ==
            IF player.lastPlayDate = NULL THEN NULL
            ELSE normalizeToVirtualDay(player.lastPlayDate)
        normalizedYesterday == normalizeToVirtualDay(info.yesterday)
        isFirstPlayToday == normalizedLastPlay = NULL \/ normalizedLastPlay < info.today
        currentStreak ==
            IF s.weeklyResetEnabled THEN player.weeklyStreak ELSE player.currentStreak
    IN  IF isFirstPlayToday
        THEN IF normalizedLastPlay = NULL
             THEN [isFirstPlayToday |-> TRUE, newStreak |-> 1,
                   newLifetimeStreak |-> 1, streakForMultiplier |-> 0]
             ELSE IF normalizedLastPlay = normalizedYesterday
             THEN [isFirstPlayToday |-> TRUE, newStreak |-> currentStreak + 1,
                   newLifetimeStreak |-> player.currentStreak + 1,
                   streakForMultiplier |-> currentStreak]
             ELSE [isFirstPlayToday |-> TRUE, newStreak |-> 1,
                   newLifetimeStreak |-> 1, streakForMultiplier |-> 0]
        ELSE [isFirstPlayToday |-> FALSE, newStreak |-> currentStreak,
              newLifetimeStreak |-> player.currentStreak,
              streakForMultiplier |-> currentStreak]

\* variant of the streak block that leaves the longest streaks as they were
PlayerAfterStreak_LongestKept(s, player, st) ==
    IF ~st.isFirstPlayToday THEN player
    ELSE LET p1 == [player EXCEPT !.currentStreak = st.newLifetimeStreak]
         IN  IF s.weeklyResetEnabled
             THEN [p1 EXCEPT !.weeklyStreak = st.newStreak]
             ELSE p1

\* submitScore: the in-memory player object after the streak block (lines 404-416)
PlayerAfterStreak(s, player, st) ==
    IF ~st.isFirstPlayToday THEN player
    ELSE LET p1 == [player EXCEPT
                      !.currentStreak = st.newLifetimeStreak,
                      !.longestStreak = IF st.newLifetimeStreak > player.longestStreak
                                        THEN st.newLifetimeStreak ELSE player.longestStreak]
         IN  IF s.weeklyResetEnabled
             THEN [p1 EXCEPT
                      !.weeklyStreak = st.newStreak,
                      !.weeklyLongestStreak = IF st.newStreak > player.weeklyLongestStreak
                                              THEN st.newStreak
                                              ELSE player.weeklyLongestStreak]
             ELSE p1

\* submitScore: prisma.player.update with updateData, applied to the database row
UpdatePlayerRow(s, row, player, finalScore, today) ==
    LET base == [row EXCEPT
                    !.totalScore = player.totalScore + finalScore,
                    !.currentStreak = player.currentStreak,
                    !.longestStreak = player.longestStreak,
                    !.lastPlayDate = today]
    IN  IF s.weeklyResetEnabled
        THEN [base EXCEPT
                    !.weeklyScore = player.weeklyScore + finalScore,
                    !.weeklyStreak = player.weeklyStreak,
                    !.weeklyLongestStreak = player.weeklyLongestStreak]
        ELSE base

\* variant of the grant update that leaves the grant unspent
ReferralAfterPlay_Unspent(table, walletAddress, referral) == table

\* prisma.referralCode.update after a play that used the grant: the new
\* extraPlaysUsed is the one read before the session was created, plus one
ReferralAfterPlay(table, walletAddress, referral) ==
    [table EXCEPT ![ToLowerCase(walletAddress)].extraPlaysUsed =
                      referral.extraPlaysUsed + 1]

\* variant of the insert on a table without the unique constraint
CreateStreak_NoConstraint(table, playerId, streakDate, streakCount) ==
    table \cup {[id |-> Cardinality(table) + 1, playerId |-> playerId,
                 streakDate |-> streakDate, streakCount |-> streakCount]}

\* prisma.playerStreak.create under the unique (playerId, streakDate) constraint;
\* a P2002 conflict is caught and the table is left as it was
CreateStreak(table, playerId, streakDate, streakCount) ==
    IF \E r \in table : r.playerId = playerId /\ r.streakDate = streakDate
    THEN table
    ELSE table \cup {[id |-> Cardinality(table) + 1, playerId |-> playerId,
                      streakDate |-> streakDate, streakCount |-> streakCount]}

-----------------------------------------------------------------------------
(* Weekly rollover sweep: WeeklyResetService.checkAndPerformReset *)

\* variant of the selection that leaves out players with nothing to fold
PlayersNeedingReset_SkipsIdle(table, currentWeekNumber) ==
    {w \in DOMAIN table :
        /\ table[w].weeklyScore > 0
        /\ \/ table[w].lastResetWeekNumber = NULL
           \/ table[w].lastResetWeekNumber < currentWeekNumber}

\* prisma.player.findMany({lastResetWeekNumber null or < currentWeekNumber})
PlayersNeedingReset(table, currentWeekNumber) ==
    {w \in DOMAIN table :
        \/ table[w].lastResetWeekNumber = NULL
        \/ table[w].lastResetWeekNumber < currentWeekNumber}

\* the selected players in the order the query returns them (by id)
OrderById(table, S) ==
    CHOOSE q \in [1..Cardinality(S) -> S] :
        /\ \A i, j \in 1..Cardinality(S) : i < j => table[q[i]].id < table[q[j]].id

\* the WeeklyScoreSnapshot row built for one selected player
SnapshotOf(player, currentWeekNumber) ==
    [weekNumber |-> currentWeekNumber, playerId |-> player.id,
     walletAddress |-> player.walletAddress,
     weeklyScore |-> player.weeklyScore, weeklyStreak |-> player.weeklyStreak,
     weeklyLongestStreak |-> player.weeklyLongestStreak,
     lifetimeTotalScore |-> player.lifetimeTotalScore + player.weeklyScore]

\* variant of the reset that moves a player one week forward at a time
ResetPlayerRow_OneWeekAtATime(player, currentWeekNumber) ==
    [player EXCEPT
        !.lifetimeTotalScore = player.lifetimeTotalScore + player.weeklyScore,
        !.weeklyScore = 0, !.weeklyStreak = 0, !.weeklyLongestStreak = 0,
        !.lastResetWeekNumber = IF player.lastResetWeekNumber = NULL
                                THEN currentWeekNumber
                                ELSE player.lastResetWeekNumber + 1]

\* variant of the reset that zeroes the weekly score without folding it
ResetPlayerRow_FoldLost(player, currentWeekNumber) ==
    [player EXCEPT
        !.weeklyScore = 0, !.weeklyStreak = 0, !.weeklyLongestStreak = 0,
        !.lastResetWeekNumber = currentWeekNumber]

\* variant of the reset that also clears the lifetime streak counter
ResetPlayerRow_ClearsStreak(player, currentWeekNumber) ==
    [player EXCEPT
        !.lifetimeTotalScore = player.lifetimeTotalScore + player.weeklyScore,
        !.weeklyScore = 0, !.weeklyStreak = 0, !.weeklyLongestStreak = 0,
        !.currentStreak = 0,
        !.lastResetWeekNumber = currentWeekNumber]

\* prisma.player.update of the reset loop, for one selected player
ResetPlayerRow(player, currentWeekNumber) ==
    [player EXCEPT
        !.lifetimeTotalScore = player.lifetimeTotalScore + player.weeklyScore,
        !.weeklyScore = 0, !.weeklyStreak = 0, !.weeklyLongestStreak = 0,
        !.lastResetWeekNumber = currentWeekNumber]

\* the guard of the sweep: the week has changed since the stored week number
\* variant of the guard that also runs when the stored week equals the current one
ResetNeeded_AlsoWhenEqual(storedWeekNumber, currentWeekNumber) ==
    ~(storedWeekNumber # NULL /\ storedWeekNumber > currentWeekNumber)

ResetNeeded(storedWeekNumber, currentWeekNumber) ==
    ~(storedWeekNumber # NULL /\ storedWeekNumber >= currentWeekNumber)

\* the sweep goes past its early returns (disabled, week unchanged)
SweepRuns(s, currentWeekNumber) ==
    s.weeklyResetEnabled /\ ResetNeeded(s.currentWeekNumber, currentWeekNumber)

\* variant of the sweep that resets every player each time it is called
PlayersToReset_Everyone(s, table, currentWeekNumber) == DOMAIN table

\* the players one run of the sweep resets
PlayersToReset(s, table, currentWeekNumber) ==
    IF SweepRuns(s, currentWeekNumber)
    THEN PlayersNeedingReset(table, currentWeekNumber) ELSE {}

-----------------------------------------------------------------------------
(* Initial state: empty tables, empty cache, the clock at launch midnight *)

\* what the last operation was and answered: op is "submit" with the HTTP
\* status of the response, "sweep" ("sweepAgain" when the operation before it
\* was a sweep too) with the number of Player updates it made, or "other"
Outcome(op, httpStatus, updates) ==
    [op |-> op, httpStatus |-> httpStatus, updates |-> updates]

Other == Outcome("other", 200, 0)

\* no evaluation of a calculation on its own has been requested
NoCalc == << >>

\* requests in flight on the replicas: two POST /api/game/submit handlers and
\* two runs of the sweep, each between two of its awaited calls
SubmitProcs == {"submit1", "submit2"}
SweepProcs == {"sweep1", "sweep2"}

\* a handler that is not running; while it runs, `player` is the row
\* findOrCreatePlayer returned, `referral` the grant read before the session is
\* created, `week` and `selected` the sweep's currentWeekNumber and the rows
\* findMany returned that are still to be reset; sessionAt, updated and
\* collided record what the call has done so far
IdleProc ==
    [pc |-> "idle", player |-> << >>, referral |-> << >>, week |-> NULL,
     selected |-> << >>, sessionAt |-> 0, updated |-> FALSE, collided |-> FALSE]

AllIdle == \A p \in DOMAIN procs : procs[p].pc = "idle"

\* the tables and the stored week as they were when the handlers now in flight
\* began, and how many
\* submissions and sweep runs have begun since (counted up to three: the
\* properties tell none, one, two and more apart)
EpochAfterStart(kind) ==
    LET base == IF AllIdle
                THEN [rows |-> players,
                      played |-> [i \in PlayerIds |-> Len(sessions[i])],
                      week |-> settings.currentWeekNumber,
                      submits |-> 0, sweeps |-> 0]
                ELSE epoch
    IN  [base EXCEPT ![kind] = Min(@ + 1, 3)]

\* the database, the caches and the replicas after deployment
InitState ==
    /\ procs = [p \in SubmitProcs \cup SweepProcs |-> IdleProc]
    /\ epoch = [rows |-> << >>, played |-> [i \in PlayerIds |-> 0],
                week |-> NULL, submits |-> 0, sweeps |-> 0]
    /\ now = launchMs
    /\ \E enabled \in BOOLEAN :
          settings = [weeklyResetEnabled |-> enabled, currentWeekNumber |-> NULL,
                      updatedAt |-> 0]
    /\ settingsCache = << >>
    /\ players = << >>
    /\ playerCache = << >>
    /\ sessions = [i \in PlayerIds |-> << >>]
    /\ streaks = {}
    /\ snapshots = << >>
    /\ referrals = << >>
    /\ lastOp = Other
    /\ lastStatus = << >>

Init == InitState /\ calc = NoCalc

-----------------------------------------------------------------------------
(* Operations *)

\* the wall clock moves forward by one of the amounts in `jumps`
AdvanceTime(jumps, maxDays) ==
    /\ \E t \in {now + j : j \in jumps} :
          /\ t <= launchMs + maxDays * dayMs
          /\ now' = t
          /\ lastStatus' = IF DaysSinceLaunch(t) = DaysSinceLaunch(now)
                           THEN lastStatus ELSE << >>
    /\ lastOp' = Other
    /\ UNCHANGED <<settings, settingsCache, players, playerCache, sessions,
                   streaks, snapshots, referrals, procs, epoch, calc>>

\* the TTL of a player:<wallet> cache entry runs out
PlayerCacheExpire(w) ==
    /\ w \in DOMAIN playerCache
    /\ playerCache' = CacheDel(playerCache, w)
    /\ lastOp' = Other
    /\ UNCHANGED <<now, settings, settingsCache, players, sessions, streaks,
                   snapshots, referrals, lastStatus, procs, epoch, calc>>

\* the TTL of the game:settings cache entry runs out.  Only the expiry of an
\* entry that differs from the database row is a step: every operation that
\* reads the settings refills the cache, so losing an entry equal to the row
\* changes nothing any operation can see
SettingsCacheExpire ==
    /\ settingsCache # << >>
    /\ settingsCache[1] # settings
    /\ settingsCache' = << >>
    /\ lastOp' = Other
    /\ UNCHANGED <<now, settings, players, playerCache, sessions, streaks,
                   snapshots, referrals, lastStatus, procs, epoch, calc>>

\* GET /api/game/status/:walletAddress; with `keep` the client holds on to the
\* response until the next write or the next virtual day
GetPlayerStatus(w, keep) ==
    LET s == getSettings
        player == findOrCreatePlayer(w)
        result == getPlayerStatus(s, player, now)
    IN  /\ settingsCache' = SettingsCacheAfterGet
        /\ players' = PlayersAfterFind(w)
        /\ playerCache' = CacheAfterFind(w)
        /\ lastOp' = Other
        /\ lastStatus' = IF keep THEN <<result>> ELSE << >>
        /\ UNCHANGED <<now, settings, sessions, streaks, snapshots, referrals,
                       procs, epoch, calc>>

\* POST /api/game/submit
SubmitScore(w, score, maxSessions) ==
    LET s == getSettings
        player == findOrCreatePlayer(w)
        table == PlayersAfterFind(w)
        info == getGameDayInfo(now)
        status == getPlayerStatus(s, player, now)
        st == SubmitStreaks(s, player, info)
        updated == PlayerAfterStreak(s, player, st)
        streakMultiplier == calculateStreakMultiplier(st.streakForMultiplier)
        finalScore == FinalScore(score, streakMultiplier)
        weekNumber == IF s.weeklyResetEnabled THEN calculateWeekNumber(info.today)
                      ELSE NULL
        useReferralPlay ==
            /\ HasReferral(player.walletAddress)
            /\ Referral(player.walletAddress).extraPlaysUsed
                   < Referral(player.walletAddress).extraPlaysTotal
        session == [playerId |-> player.id, score |-> score, playDate |-> info.today,
                    weekNumber |-> weekNumber, streakMultiplier |-> streakMultiplier,
                    finalScore |-> finalScore]
    IN  /\ settingsCache' = SettingsCacheAfterGet
        /\ IF ~status.canPlay
           THEN /\ players' = table
                /\ playerCache' = CacheAfterFind(w)
                /\ lastOp' = Outcome("submit", 429, 0)
                /\ UNCHANGED <<sessions, streaks, referrals, lastStatus>>
           ELSE /\ TotalSessions(sessions) < maxSessions
                /\ streaks' = IF st.isFirstPlayToday
                              THEN CreateStreak(streaks, player.id, info.today,
                                                st.newLifetimeStreak)
                              ELSE streaks
                /\ sessions' = [sessions EXCEPT ![player.id] = Append(@, session)]
                /\ referrals' =
                      IF useReferralPlay
                      THEN ReferralAfterPlay(referrals, player.walletAddress,
                                             Referral(player.walletAddress))
                      ELSE referrals
                /\ players' = [table EXCEPT
                      ![w] = UpdatePlayerRow(s, table[w], updated, finalScore, info.today)]
                /\ playerCache' = CacheDel(CacheAfterFind(w), w)
                /\ lastOp' = Outcome("submit", 201, 0)
                /\ lastStatus' = << >>
        /\ UNCHANGED <<now, settings, snapshots, procs, epoch, calc>>

\* POST /api/game/referral/apply; `valid` is the answer of the code oracle
ApplyReferralCode(w, valid) ==
    LET normalizedWallet == ToLowerCase(w)
    IN  IF normalizedWallet \in DOMAIN referrals
        THEN /\ lastOp' = Outcome("referral", 400, 0)
             /\ UNCHANGED <<now, settings, settingsCache, players, playerCache,
                            sessions, streaks, snapshots, referrals, lastStatus,
                            procs, epoch, calc>>
        ELSE IF ~valid
        THEN /\ lastOp' = Outcome("referral", 404, 0)
             /\ UNCHANGED <<now, settings, settingsCache, players, playerCache,
                            sessions, streaks, snapshots, referrals, lastStatus,
                            procs, epoch, calc>>
        ELSE /\ settingsCache' = SettingsCacheAfterGet
             /\ referrals' = referrals @@
                   (normalizedWallet :> [extraPlaysTotal |-> ReferralExtraPlays,
                                         extraPlaysUsed |-> 0])
             /\ lastOp' = Outcome("referral", 201, 0)
             /\ lastStatus' = << >>
             /\ UNCHANGED <<now, settings, players, playerCache, sessions,
                            streaks, snapshots, procs, epoch, calc>>

\* the hourly cron or a manual trigger runs the sweep to completion; the rows
\* it selects have not been reset to this week, so its snapshot batch meets no
\* row of an earlier run.  Whether
\* prisma.gameSettings.update advances the row's updatedAt is decided by the
\* Prisma schema (an @updatedAt attribute), so both outcomes are allowed
CheckAndPerformReset ==
    LET s == getSettings
        currentWeekNumber == calculateCurrentWeekNumber(now)
        selected == PlayersToReset(s, players, currentWeekNumber)
        order == OrderById(players, selected)
        op == IF lastOp.op \in {"sweep", "sweepAgain"} THEN "sweepAgain" ELSE "sweep"
    IN  /\ settingsCache' = SettingsCacheAfterGet
        /\ IF SweepRuns(s, currentWeekNumber)
           THEN \E touched \in BOOLEAN :
                   settings' = [settings EXCEPT
                                   !.currentWeekNumber = currentWeekNumber,
                                   !.updatedAt = IF touched THEN settings.updatedAt + 1
                                                 ELSE settings.updatedAt]
           ELSE settings' = settings
        /\ snapshots' = snapshots \o
              [i \in 1..Cardinality(selected) |->
                  SnapshotOf(players[order[i]], currentWeekNumber)]
        /\ players' = [w \in DOMAIN players |->
                          IF w \in selected
                          THEN ResetPlayerRow(players[w], currentWeekNumber)
                          ELSE players[w]]
        /\ lastOp' = Outcome(op, 200, Cardinality(selected))
        /\ lastStatus' = IF selected = {} THEN lastStatus ELSE << >>
        /\ UNCHANGED <<now, playerCache, sessions, streaks, referrals, procs, epoch, calc>>

-----------------------------------------------------------------------------
(* submitScore, one awaited call at a time *)

\* variant of the statement order that writes the ledger before the session
PcAfter_LedgerFirst(pc, useReferralPlay) ==
    CASE pc = "find" -> "status"
      [] pc = "status" -> "streak"
      [] pc = "streak" -> "referral"
      [] pc = "referral" -> "update"
      [] pc = "update" -> "session"
      [] pc = "session" -> IF useReferralPlay THEN "grant" ELSE "del"
      [] pc = "grant" -> "del"

\* the awaited call that follows `pc` in submitScore: findOrCreatePlayer,
\* getPlayerStatus, playerStreak.create, referralCode.findUnique,
\* gameSession.create, referralCode.update, player.update, cacheManager.del
PcAfter(pc, useReferralPlay) ==
    CASE pc = "find" -> "status"
      [] pc = "status" -> "streak"
      [] pc = "streak" -> "referral"
      [] pc = "referral" -> "session"
      [] pc = "session" -> IF useReferralPlay THEN "grant" ELSE "update"
      [] pc = "grant" -> "update"
      [] pc = "update" -> "del"

\* the grant read at line 466 still has plays to give
UseReferralPlay(referral) ==
    /\ referral # << >>
    /\ referral[1].extraPlaysUsed < referral[1].extraPlaysTotal

\* the session row a handler builds from the player row it holds; the only
\* setting it depends on is weeklyResetEnabled, which nothing ever writes
SessionOf(player, score) ==
    LET info == getGameDayInfo(now)
        st == SubmitStreaks(settings, player, info)
        streakMultiplier == calculateStreakMultiplier(st.streakForMultiplier)
    IN  [playerId |-> player.id, score |-> score, playDate |-> info.today,
         weekNumber |-> IF settings.weeklyResetEnabled
                        THEN calculateWeekNumber(info.today) ELSE NULL,
         streakMultiplier |-> streakMultiplier,
         finalScore |-> FinalScore(score, streakMultiplier)]

\* handlers between the quota check and the creation of their session
Admitted ==
    Cardinality({p \in SubmitProcs :
                    procs[p].pc \in {"streak", "referral", "session"}
                    \/ (procs[p].pc = "update" /\ procs[p].sessionAt = 0)})

\* lines 350-352: getSettings, findOrCreatePlayer
SubmitFind(p, w) ==
    /\ procs[p].pc = "idle"
    /\ procs' = [procs EXCEPT ![p] = [IdleProc EXCEPT
                     !.pc = PcAfter("find", FALSE),
                     !.player = <<findOrCreatePlayer(w)>>]]
    /\ epoch' = EpochAfterStart("submits")
    /\ settingsCache' = SettingsCacheAfterGet
    /\ players' = PlayersAfterFind(w)
    /\ playerCache' = CacheAfterFind(w)
    /\ lastOp' = Other
    /\ UNCHANGED <<now, settings, sessions, streaks, snapshots, referrals,
                   lastStatus, calc>>

\* lines 355-359: getPlayerStatus and the 429 answer
SubmitStatus(p, maxSessions) ==
    LET w == procs[p].player[1].walletAddress
        status == getPlayerStatus(getSettings, findOrCreatePlayer(w), now)
    IN  /\ procs[p].pc = "status"
        /\ settingsCache' = SettingsCacheAfterGet
        /\ players' = PlayersAfterFind(w)
        /\ playerCache' = CacheAfterFind(w)
        /\ IF ~status.canPlay
           THEN /\ procs' = [procs EXCEPT ![p] = IdleProc]
                /\ lastOp' = Outcome("submit", 429, 0)
           ELSE /\ TotalSessions(sessions) + Admitted < maxSessions
                /\ procs' = [procs EXCEPT ![p].pc = PcAfter("status", FALSE)]
                /\ lastOp' = Other
        /\ UNCHANGED <<now, settings, sessions, streaks, snapshots, referrals,
                       lastStatus, epoch, calc>>

\* lines 361-437: the streak block and playerStreak.create
SubmitStreak(p) ==
    LET player == procs[p].player[1]
        info == getGameDayInfo(now)
        st == SubmitStreaks(settings, player, info)
        exists == \E r \in streaks : r.playerId = player.id /\ r.streakDate = info.today
    IN  /\ procs[p].pc = "streak"
        /\ streaks' = IF st.isFirstPlayToday
                      THEN CreateStreak(streaks, player.id, info.today,
                                        st.newLifetimeStreak)
                      ELSE streaks
        /\ procs' = [procs EXCEPT
                        ![p].pc = PcAfter("streak", FALSE),
                        ![p].collided = st.isFirstPlayToday /\ exists]
        /\ lastOp' = Other
        /\ UNCHANGED <<now, settings, settingsCache, players, playerCache, sessions,
                       snapshots, referrals, lastStatus, epoch, calc>>

\* lines 466-470: referralCode.findUnique
SubmitReferral(p) ==
    LET w == procs[p].player[1].walletAddress
        referral == IF HasReferral(w) THEN <<Referral(w)>> ELSE << >>
    IN  /\ procs[p].pc = "referral"
        /\ procs' = [procs EXCEPT
                        ![p].pc = PcAfter("referral", UseReferralPlay(referral)),
                        ![p].referral = referral]
        /\ lastOp' = Other
        /\ UNCHANGED <<now, settings, settingsCache, players, playerCache, sessions,
                       streaks, snapshots, referrals, lastStatus, epoch, calc>>

\* lines 472-483: gameSession.create
SubmitSession(p, score) ==
    LET player == procs[p].player[1]
    IN  /\ procs[p].pc = "session"
        /\ sessions' = [sessions EXCEPT
                           ![player.id] = Append(@, SessionOf(player, score))]
        /\ procs' = [procs EXCEPT
                        ![p].pc = PcAfter("session", UseReferralPlay(procs[p].referral)),
                        ![p].sessionAt = Len(sessions[player.id]) + 1]
        /\ lastOp' = Other
        /\ lastStatus' = << >>
        /\ UNCHANGED <<now, settings, settingsCache, players, playerCache, streaks,
                       snapshots, referrals, epoch, calc>>

\* lines 489-501: referralCode.update
SubmitGrant(p) ==
    LET w == procs[p].player[1].walletAddress
    IN  /\ procs[p].pc = "grant"
        /\ referrals' = ReferralAfterPlay(referrals, w, procs[p].referral[1])
        /\ procs' = [procs EXCEPT
                        ![p].pc = PcAfter("grant", UseReferralPlay(procs[p].referral))]
        /\ lastOp' = Other
        /\ lastStatus' = << >>
        /\ UNCHANGED <<now, settings, settingsCache, players, playerCache, sessions,
                       streaks, snapshots, epoch, calc>>

\* lines 513-534: player.update with the totals of the row the handler holds
SubmitUpdate(p, score) ==
    LET player == procs[p].player[1]
        w == player.walletAddress
        info == getGameDayInfo(now)
        st == SubmitStreaks(settings, player, info)
        updated == PlayerAfterStreak(settings, player, st)
        finalScore == SessionOf(player, score).finalScore
    IN  /\ procs[p].pc = "update"
        /\ players' = [players EXCEPT
              ![w] = UpdatePlayerRow(settings, players[w], updated, finalScore,
                                     info.today)]
        /\ procs' = [procs EXCEPT
                        ![p].pc = PcAfter("update", UseReferralPlay(procs[p].referral)),
                        ![p].updated = TRUE]
        /\ lastOp' = Other
        /\ lastStatus' = << >>
        /\ UNCHANGED <<now, settings, settingsCache, playerCache, sessions, streaks,
                       snapshots, referrals, epoch, calc>>

\* lines 537-581: cacheManager.del of the player entry, whose rejection reaches
\* the outer catch and is answered 500, then the leaderboard keys, whose
\* failure is caught and logged
SubmitDel(p, playerDeleted, leaderboardDeleted) ==
    LET w == procs[p].player[1].walletAddress
    IN  /\ procs[p].pc = "del"
        /\ playerCache' = IF playerDeleted THEN CacheDel(playerCache, w)
                          ELSE playerCache
        /\ lastOp' = IF playerDeleted THEN Outcome("submit", 201, 0)
                     ELSE Outcome("submit", 500, 0)
        /\ procs' = [procs EXCEPT ![p] = IdleProc]
        /\ UNCHANGED <<now, settings, settingsCache, players, sessions, streaks,
                       snapshots, referrals, lastStatus, epoch, calc>>

-----------------------------------------------------------------------------
(* checkAndPerformReset, one awaited call at a time *)

\* variant of the insert on a table without the unique constraint
CreateSnapshots_NoConstraint(table, rows) == <<table \o rows>>

\* prisma.weeklyScoreSnapshot.createMany under a unique (playerId, weekNumber)
\* constraint: the batch is inserted as a whole, or rejected as a whole (no
\* table is returned) when one of its rows exists already
CreateSnapshots(table, rows) ==
    IF \E i \in 1..Len(table), j \in 1..Len(rows) :
          /\ table[i].playerId = rows[j].playerId
          /\ table[i].weekNumber = rows[j].weekNumber
    THEN << >>
    ELSE <<table \o rows>>

\* variant of the reset that zeroes the week without adding it to the
\* lifetime total
ResetRow_DropsWeek(row, player, currentWeekNumber) ==
    [row EXCEPT
        !.lifetimeTotalScore = player.lifetimeTotalScore,
        !.weeklyScore = 0, !.weeklyStreak = 0, !.weeklyLongestStreak = 0,
        !.lastResetWeekNumber = currentWeekNumber]

\* prisma.player.update of the reset loop on the stored `row`, with the values
\* computed from `player`, the copy findMany returned
ResetRow(row, player, currentWeekNumber) ==
    [row EXCEPT
        !.lifetimeTotalScore = player.lifetimeTotalScore + player.weeklyScore,
        !.weeklyScore = 0, !.weeklyStreak = 0, !.weeklyLongestStreak = 0,
        !.lastResetWeekNumber = currentWeekNumber]

\* lines 97-111: getSettings and the early returns
SweepStart(p) ==
    LET s == getSettings
        currentWeekNumber == calculateCurrentWeekNumber(now)
    IN  /\ procs[p].pc = "idle"
        /\ settingsCache' = SettingsCacheAfterGet
        /\ epoch' = EpochAfterStart("sweeps")
        /\ IF SweepRuns(s, currentWeekNumber)
           THEN /\ procs' = [procs EXCEPT ![p] = [IdleProc EXCEPT
                                !.pc = "settings", !.week = currentWeekNumber]]
                /\ lastOp' = Other
           ELSE /\ procs' = procs
                /\ lastOp' = Outcome("sweep", 200, 0)
        /\ UNCHANGED <<now, settings, players, playerCache, sessions, streaks,
                       snapshots, referrals, lastStatus, calc>>

\* lines 116-119: gameSettings.update
SweepSettings(p) ==
    /\ procs[p].pc = "settings"
    /\ \E touched \in BOOLEAN :
          settings' = [settings EXCEPT
                          !.currentWeekNumber = procs[p].week,
                          !.updatedAt = IF touched THEN settings.updatedAt + 1
                                        ELSE settings.updatedAt]
    /\ procs' = [procs EXCEPT ![p].pc = "select"]
    /\ lastOp' = Other
    /\ UNCHANGED <<now, settingsCache, players, playerCache, sessions, streaks,
                   snapshots, referrals, lastStatus, epoch, calc>>

\* lines 122-134: player.findMany and the return when nobody is selected
SweepSelect(p) ==
    LET selected == PlayersNeedingReset(players, procs[p].week)
        order == OrderById(players, selected)
    IN  /\ procs[p].pc = "select"
        /\ IF selected = {}
           THEN /\ procs' = [procs EXCEPT ![p] = IdleProc]
                /\ lastOp' = Outcome("sweep", 200, 0)
           ELSE /\ procs' = [procs EXCEPT
                                ![p].pc = "snapshots",
                                ![p].selected = [i \in 1..Cardinality(selected) |->
                                                    players[order[i]]]]
                /\ lastOp' = Other
        /\ UNCHANGED <<now, settings, settingsCache, players, playerCache, sessions,
                       streaks, snapshots, referrals, lastStatus, epoch, calc>>

\* lines 139-155: weeklyScoreSnapshot.createMany; a rejected batch ends the run
SweepSnapshots(p) ==
    LET rows == [i \in 1..Len(procs[p].selected) |->
                    SnapshotOf(procs[p].selected[i], procs[p].week)]
        created == CreateSnapshots(snapshots, rows)
    IN  /\ procs[p].pc = "snapshots"
        /\ IF created = << >>
           THEN /\ snapshots' = snapshots
                /\ procs' = [procs EXCEPT ![p] = IdleProc]
                /\ lastOp' = Outcome("sweep", 500, 0)
           ELSE /\ snapshots' = created[1]
                /\ procs' = [procs EXCEPT ![p].pc = "reset"]
                /\ lastOp' = Other
        /\ UNCHANGED <<now, settings, settingsCache, players, playerCache, sessions,
                       streaks, referrals, lastStatus, epoch, calc>>

\* lines 158-172: one player.update of the reset loop
SweepReset(p) ==
    LET player == Head(procs[p].selected)
        w == player.walletAddress
        rest == Tail(procs[p].selected)
    IN  /\ procs[p].pc = "reset"
        /\ players' = [players EXCEPT
                          ![w] = ResetRow(players[w], player, procs[p].week)]
        /\ IF rest = << >>
           THEN /\ procs' = [procs EXCEPT ![p] = IdleProc]
                /\ lastOp' = Outcome("sweep", 200, 1)
           ELSE /\ procs' = [procs EXCEPT ![p].selected = rest]
                /\ lastOp' = Other
        /\ lastStatus' = << >>
        /\ UNCHANGED <<now, settings, settingsCache, playerCache, sessions, streaks,
                       snapshots, referrals, epoch, calc>>

\* a submission that runs from its first call to its last with no sweep in
\* flight
QuietSubmitScore(w, score, maxSessions) ==
    AllIdle /\ SubmitScore(w, score, maxSessions)

\* the clock moves on while no handler is running
QuietAdvanceTime(jumps, maxDays) == AllIdle /\ AdvanceTime(jumps, maxDays)

-----------------------------------------------------------------------------
(* Specifications *)

Next ==
    \/ AdvanceTime({halfDayMs, dayMs}, MaxDays)
    \/ \E w \in {"0xAB"} : PlayerCacheExpire(w)
    \/ SettingsCacheExpire
    \/ \E w \in {"0xAB"} : GetPlayerStatus(w, TRUE)
    \/ \E w \in {"0xAB"}, score \in Scores : SubmitScore(w, score, MaxSessions)
    \/ \E w \in {"0xAB"}, valid \in BOOLEAN : ApplyReferralCode(w, valid)
    \/ CheckAndPerformReset

\* one wallet, every operation, a horizon of a few virtual days
Spec == Init /\ [][Next]_vars

NextPair ==
    \/ AdvanceTime({halfDayMs, dayMs}, MaxPairDays)
    \/ \E w \in Wallets : PlayerCacheExpire(w)
    \/ \E w \in Wallets : GetPlayerStatus(w, TRUE)
    \/ \E w \in Wallets, score \in Scores : SubmitScore(w, score, MaxSessions)
    \/ \E w \in Wallets, valid \in BOOLEAN : ApplyReferralCode(w, valid)

\* two wallets that share one referral grant, a horizon of a few virtual days
SpecPair == Init /\ [][NextPair]_vars

NextReferral ==
    \/ AdvanceTime({halfDayMs, dayMs}, MaxReferralDays)
    \/ \E w \in {"0xAB"} : PlayerCacheExpire(w)
    \/ SettingsCacheExpire
    \/ \E w \in {"0xAB"} : GetPlayerStatus(w, FALSE)
    \/ \E w \in {"0xAB"}, score \in Scores : SubmitScore(w, score, MaxSessions)
    \/ \E w \in {"0xAB"}, valid \in BOOLEAN : ApplyReferralCode(w, valid)
    \/ CheckAndPerformReset

\* one wallet and its referral grant, every operation, a short horizon
SpecReferral == Init /\ [][NextReferral]_vars

InitWeekly == Init /\ settings.weeklyResetEnabled

NextWeekly ==
    \/ AdvanceTime({DaysPerWeek * dayMs}, MaxWeeks * DaysPerWeek)
    \/ \E w \in {"0xAB"} : PlayerCacheExpire(w)
    \/ SettingsCacheExpire
    \/ \E w \in {"0xAB"} : GetPlayerStatus(w, FALSE)
    \/ \E w \in {"0xAB"}, score \in Scores : SubmitScore(w, score, MaxWeeklySessions)
    \/ CheckAndPerformReset

\* weekly mode, one wallet, the clock observed once a week
SpecWeekly == InitWeekly /\ [][NextWeekly]_vars

\* a wallet that holds an unused referral grant when the submissions begin
InitSubmitRace ==
    /\ procs = [p \in SubmitProcs \cup SweepProcs |-> IdleProc]
    /\ epoch = [rows |-> << >>, played |-> [i \in PlayerIds |-> 0],
                week |-> NULL, submits |-> 0, sweeps |-> 0]
    /\ calc = NoCalc
    /\ now = launchMs
    /\ \E enabled \in BOOLEAN :
          settings = [weeklyResetEnabled |-> enabled, currentWeekNumber |-> NULL,
                      updatedAt |-> 0]
    /\ settingsCache = << >>
    /\ players = << >>
    /\ playerCache = << >>
    /\ sessions = [i \in PlayerIds |-> << >>]
    /\ streaks = {}
    /\ snapshots = << >>
    /\ referrals = ("0xab" :> [extraPlaysTotal |-> RaceExtraPlays,
                               extraPlaysUsed |-> 0])
    /\ lastOp = Other
    /\ lastStatus = << >>

NextSubmitRace ==
    \/ \E w \in {"0xAB"} : PlayerCacheExpire(w)
    \/ \E p \in SubmitProcs, w \in {"0xAB"} : SubmitFind(p, w)
    \/ \E p \in SubmitProcs : SubmitStatus(p, MaxRaceSessions)
    \/ \E p \in SubmitProcs : SubmitStreak(p)
    \/ \E p \in SubmitProcs : SubmitReferral(p)
    \/ \E p \in SubmitProcs, score \in Scores : SubmitSession(p, score)
    \/ \E p \in SubmitProcs : SubmitGrant(p)
    \/ \E p \in SubmitProcs, score \in Scores : SubmitUpdate(p, score)
    \/ \E p \in SubmitProcs, playerDeleted, leaderboardDeleted \in BOOLEAN :
          SubmitDel(p, playerDeleted, leaderboardDeleted)

\* two submissions of one wallet in flight at once, within one virtual day
SpecSubmitRace == InitSubmitRace /\ [][NextSubmitRace]_vars

NextSweepRace ==
    \/ QuietAdvanceTime({DaysPerWeek * dayMs}, MaxRaceWeeks * DaysPerWeek)
    \/ \E w \in {"0xAB"} : PlayerCacheExpire(w)
    \/ SettingsCacheExpire
    \/ \E p \in {"submit1"}, w \in {"0xAB"} : SubmitFind(p, w)
    \/ \E p \in {"submit1"} : SubmitStatus(p, MaxSweepRaceSessions)
    \/ \E p \in {"submit1"} : SubmitStreak(p)
    \/ \E p \in {"submit1"} : SubmitReferral(p)
    \/ \E p \in {"submit1"}, score \in Scores : SubmitSession(p, score)
    \/ \E p \in {"submit1"}, score \in Scores : SubmitUpdate(p, score)
    \/ \E p \in {"submit1"}, playerDeleted, leaderboardDeleted \in BOOLEAN :
          SubmitDel(p, playerDeleted, leaderboardDeleted)
    \/ \E p \in {"sweep1"} : SweepStart(p)
    \/ \E p \in {"sweep1"} : SweepSettings(p)
    \/ \E p \in {"sweep1"} : SweepSelect(p)
    \/ \E p \in {"sweep1"} : SweepSnapshots(p)
    \/ \E p \in {"sweep1"} : SweepReset(p)

\* weekly mode: one replica runs the sweep while one wallet submits
SpecSweepRace == InitWeekly /\ [][NextSweepRace]_vars

NextReplicas ==
    \/ QuietAdvanceTime({DaysPerWeek * dayMs}, MaxRaceWeeks * DaysPerWeek)
    \/ SettingsCacheExpire
    \/ \E w \in {"0xAB"}, score \in Scores :
          QuietSubmitScore(w, score, MaxSweepRaceSessions)
    \/ \E p \in SweepProcs : SweepStart(p)
    \/ \E p \in SweepProcs : SweepSettings(p)
    \/ \E p \in SweepProcs : SweepSelect(p)
    \/ \E p \in SweepProcs : SweepSnapshots(p)
    \/ \E p \in SweepProcs : SweepReset(p)

\* weekly mode: two replicas run the sweep at once, between submissions
SpecReplicas == InitWeekly /\ [][NextReplicas]_vars

-----------------------------------------------------------------------------
(* Properties *)

\* C1: the streakMultiplier a status response reports, for a status call made
\* when the player can play, is the streakMultiplier recorded on the session
\* of an immediately following submission on the same virtual day with no
\* write in between.
C1_StatusMultiplierIsApplied ==
    [][\A w \in Wallets :
          (/\ lastStatus # << >>
           /\ lastStatus[1].walletAddress = w
           /\ lastStatus[1].canPlay
           /\ w \in DOMAIN players
           /\ Len(sessions'[players[w].id]) = Len(sessions[players[w].id]) + 1)
          => LET mine == sessions'[players[w].id]
             IN  mine[Len(mine)].streakMultiplier = lastStatus[1].streakMultiplier]_vars

\* C2: a submission by a wallet whose playsRemaining is 0 is never accepted;
\* it is answered 429, and the rejected call leaves the PlaySession table, the
\* StreakRecord table, the referral grants and every Player row as they were.
C2_ExhaustedQuotaIsRateLimited ==
    [][LET d == DaysSinceLaunch(now)
           used(w) == IF HasReferral(w) THEN Referral(w).extraPlaysUsed ELSE 0
           total(w) == IF HasReferral(w) THEN Referral(w).extraPlaysTotal ELSE 0
           t(w) == Len(sessions[players[w].id])
           exhausted(w) ==
               /\ w \in DOMAIN players
               /\ Max(0, Max(1, d + 1) - Max(0, t(w) - Min(used(w), t(w))))
                     + Max(0, total(w) - used(w)) = 0
       IN  /\ \A w \in Wallets :
                 exhausted(w) => sessions'[players[w].id] = sessions[players[w].id]
           /\ (lastOp'.op = "submit" /\ lastOp'.httpStatus # 201) =>
                 /\ lastOp'.httpStatus = 429
                 /\ \E w \in Wallets : exhausted(w)
                 /\ sessions' = sessions
                 /\ streaks' = streaks
                 /\ referrals' = referrals
                 /\ players' = players]_vars

\* C2 witness: a submission has just been answered 429 for a wallet that holds
\* a used-up referral grant
C2_Witness ==
    /\ lastOp.op = "submit" /\ lastOp.httpStatus = 429
    /\ \E w \in DOMAIN players :
          /\ HasReferral(w)
          /\ Referral(w).extraPlaysUsed = Referral(w).extraPlaysTotal
          /\ Len(sessions[players[w].id]) > 0

\* C3: in every reachable state the number of PlaySession rows of a wallet is
\* at most (virtualDayIndex(now) + 1) + extraPlaysTotal, extraPlaysTotal
\* being 0 for a wallet without a referral grant.
C3_SessionsWithinQuota ==
    \A w \in DOMAIN players :
        Len(sessions[players[w].id])
            <= (DaysSinceLaunch(now) + 1)
                 + (IF HasReferral(w) THEN Referral(w).extraPlaysTotal ELSE 0)

\* C3 witness: a wallet with a referral grant has played up to the bound
C3_Witness ==
    \E w \in DOMAIN players :
        /\ HasReferral(w)
        /\ Referral(w).extraPlaysTotal > 0
        /\ Len(sessions[players[w].id])
              = (DaysSinceLaunch(now) + 1) + Referral(w).extraPlaysTotal

\* C4: the status response has playsRemaining =
\* max(0, max(1, d+1) - max(0, t - min(used, t))) + max(0, total - used) and
\* canPlay = (playsRemaining > 0), also when used > t; the base part is never
\* negative, and a wallet without referral plays that has played d+1 times
\* gets playsRemaining = 0 and canPlay = FALSE.
C4_PlaysRemainingFormula ==
    lastStatus # << >> =>
        LET r == lastStatus[1]
            w == r.walletAddress
            d == DaysSinceLaunch(now)
            t == Len(sessions[players[w].id])
            used == IF HasReferral(w) THEN Referral(w).extraPlaysUsed ELSE 0
            total == IF HasReferral(w) THEN Referral(w).extraPlaysTotal ELSE 0
            base == Max(1, d + 1) - Max(0, t - Min(used, t))
        IN  /\ r.playsRemaining = Max(0, base) + Max(0, total - used)
            /\ r.canPlay = (r.playsRemaining > 0)
            /\ r.playsRemaining - Max(0, total - used) >= 0
            /\ (total = 0 /\ t = d + 1) => (r.playsRemaining = 0 /\ ~r.canPlay)

\* C4 witness: a status response for a wallet whose shared grant records more
\* referral plays than the wallet has sessions
C4_Witness ==
    /\ lastStatus # << >>
    /\ LET w == lastStatus[1].walletAddress
       IN  /\ HasReferral(w)
           /\ Referral(w).extraPlaysUsed > Len(sessions[players[w].id])

\* the Player row of wallet w as the database holds it before a step; a wallet
\* the table does not know is a player that has never played
StoredRow(w) == IF w \in DOMAIN players THEN players[w] ELSE NewPlayer(w)

\* the step is an accepted submission of wallet w: its PlaySession list grows
Accepted(w) ==
    /\ w \in DOMAIN players'
    /\ Len(sessions'[players'[w].id]) = Len(sessions[players'[w].id]) + 1

\* the PlaySession an accepted submission of wallet w has just created
Created(w) == sessions'[players'[w].id][Len(sessions'[players'[w].id])]

\* the streak an accepted play must leave, from the stored lastPlayDate and
\* the stored streak s, on virtual day d
StreakAfterPlay(lastPlayDate, s, d) ==
    IF lastPlayDate = NULL THEN 1
    ELSE IF DaysSinceLaunch(lastPlayDate) = d THEN s
    ELSE IF DaysSinceLaunch(lastPlayDate) = d - 1 THEN s + 1
    ELSE 1

\* C5: an accepted submission sets the stored streak, as a function of the
\* stored lastPlayDate and the stored streak s: never played -> 1; last play
\* today -> s; last play one virtual day earlier -> s + 1; earlier -> 1.  The
\* rule holds for the lifetime streak and, in weekly mode, for the weekly one.
C5_StreakTransition ==
    [][\A w \in Wallets :
          Accepted(w) =>
             LET d == DaysSinceLaunch(now)
                 row == StoredRow(w)
             IN  /\ players'[w].currentStreak
                       = StreakAfterPlay(row.lastPlayDate, row.currentStreak, d)
                 /\ settings.weeklyResetEnabled =>
                       players'[w].weeklyStreak
                          = StreakAfterPlay(row.lastPlayDate, row.weeklyStreak, d)]_vars

\* C6: the multiplier of a play is that of the streak stored before the play:
\* multiplier(s) on a consecutive-day play with stored streak s, the base
\* multiplier on a first-ever play and after a gap of two or more days.
C6_MultiplierOfStoredStreak ==
    [][\A w \in Wallets :
          Accepted(w) =>
             LET d == DaysSinceLaunch(now)
                 row == StoredRow(w)
                 s == IF settings.weeklyResetEnabled THEN row.weeklyStreak
                      ELSE row.currentStreak
                 multiplier(k) == IF k <= 1 THEN StreakBaseMultiplier
                                  ELSE StreakBaseMultiplier + (k - 1) * StreakIncrementPerDay
             IN  /\ (row.lastPlayDate # NULL /\ DaysSinceLaunch(row.lastPlayDate) = d - 1)
                       => Created(w).streakMultiplier = multiplier(s)
                 /\ (row.lastPlayDate = NULL \/ DaysSinceLaunch(row.lastPlayDate) < d - 1)
                       => Created(w).streakMultiplier = StreakBaseMultiplier]_vars

\* C7: an accepted submission appends exactly one PlaySession, with
\* finalScore = floor(rawScore * multiplier), and adds that finalScore to
\* Player.totalScore; in weekly mode it adds it to weeklyScore too, and
\* otherwise it writes no weekly field.
C7_SubmissionAccounting ==
    [][\A w \in Wallets :
          Accepted(w) =>
             LET row == StoredRow(w)
                 new == Created(w)
             IN  /\ TotalSessions(sessions') = TotalSessions(sessions) + 1
                 /\ new.finalScore * Tenths <= new.score * new.streakMultiplier
                 /\ new.score * new.streakMultiplier < (new.finalScore + 1) * Tenths
                 /\ players'[w].totalScore = row.totalScore + new.finalScore
                 /\ settings.weeklyResetEnabled =>
                       players'[w].weeklyScore = row.weeklyScore + new.finalScore
                 /\ ~settings.weeklyResetEnabled =>
                       /\ players'[w].weeklyScore = row.weeklyScore
                       /\ players'[w].weeklyStreak = row.weeklyStreak
                       /\ players'[w].weeklyLongestStreak = row.weeklyLongestStreak]_vars

\* C8: a sweep that finds stored week s (or null) and current week c > s sets
\* Settings.currentWeekNumber to c in one step, whatever c - s is, and for
\* each player with lastResetWeekNumber null or < c adds weeklyScore to
\* lifetimeTotalScore once, zeroes the weekly fields and sets
\* lastResetWeekNumber to c; the other players are left alone.
C8_SweepJumpsToCurrentWeek ==
    [][LET c == DaysSinceLaunch(now) \div DaysPerWeek
           s == settings.currentWeekNumber
       IN  (/\ lastOp'.op \in {"sweep", "sweepAgain"}
            /\ settings.weeklyResetEnabled
            /\ (s = NULL \/ c > s))
           => /\ settings'.currentWeekNumber = c
              /\ DOMAIN players' = DOMAIN players
              /\ \A w \in DOMAIN players :
                    IF players[w].lastResetWeekNumber = NULL
                          \/ players[w].lastResetWeekNumber < c
                    THEN /\ players'[w].lifetimeTotalScore
                               = players[w].lifetimeTotalScore + players[w].weeklyScore
                         /\ players'[w].weeklyScore = 0
                         /\ players'[w].weeklyStreak = 0
                         /\ players'[w].weeklyLongestStreak = 0
                         /\ players'[w].lastResetWeekNumber = c
                    ELSE players'[w] = players[w]]_vars

\* C8 witness: a sweep has just taken the stored week from 0 to 2 (there are
\* snapshots of week 0 and of week 2, none of week 1) and folded a non-zero
\* weekly score
C8_Witness ==
    /\ lastOp.op \in {"sweep", "sweepAgain"}
    /\ lastOp.updates > 0
    /\ settings.currentWeekNumber = 2
    /\ \E i \in 1..Len(snapshots) : snapshots[i].weekNumber = 0
    /\ \A i \in 1..Len(snapshots) : snapshots[i].weekNumber # 1
    /\ \E i \in 1..Len(snapshots) :
          snapshots[i].weekNumber = 2 /\ snapshots[i].weeklyScore > 0
    /\ \E w \in DOMAIN players :
          players[w].lastResetWeekNumber = 2 /\ players[w].lifetimeTotalScore > 0

\* sum of the weeklyScore of the first n snapshots of player playerId
RECURSIVE FoldedScore(_, _)
FoldedScore(playerId, n) ==
    IF n = 0 THEN 0
    ELSE FoldedScore(playerId, n - 1)
           + (IF snapshots[n].playerId = playerId THEN snapshots[n].weeklyScore ELSE 0)

\* C9: after any sequence of submissions, week crossings and sweep calls a
\* player's lifetimeTotalScore is its initial value, 0, plus the sum of the
\* weeklyScore the player held at each of its rollovers.
C9_LifetimeIsSumOfFoldedWeeks ==
    \A w \in DOMAIN players :
        players[w].lifetimeTotalScore = FoldedScore(players[w].id, Len(snapshots))

\* C9 witness: a player has been rolled over twice, each time with a weekly
\* score above zero
C9_Witness ==
    \E w \in DOMAIN players :
        \E i, j \in 1..Len(snapshots) :
            /\ i < j
            /\ snapshots[i].playerId = players[w].id /\ snapshots[i].weeklyScore > 0
            /\ snapshots[j].playerId = players[w].id /\ snapshots[j].weeklyScore > 0

\* C10: a sweep called right after a sweep, with no time elapsed and no other
\* operation in between, updates no Player row and creates no snapshot.
C10_SecondSweepDoesNothing ==
    [][lastOp'.op = "sweepAgain" =>
          /\ lastOp'.updates = 0
          /\ players' = players
          /\ snapshots' = snapshots]_vars

\* C10 witness: the sweep has been called again right after a sweep that reset
\* players for the current week
C10_Witness ==
    /\ lastOp.op = "sweepAgain"
    /\ snapshots # << >>
    /\ settings.currentWeekNumber = DaysSinceLaunch(now) \div DaysPerWeek
    /\ \E w \in DOMAIN players :
          players[w].lastResetWeekNumber = settings.currentWeekNumber

\* a sweep has just gone past its early returns: the step is a sweep and the
\* settings it read ask for a reset to the week of the clock
SweepStep ==
    /\ lastOp'.op \in {"sweep", "sweepAgain"}
    /\ SweepRuns(getSettings, calculateCurrentWeekNumber(now))

\* C19: a sweep run changes, on a Player row, only lifetimeTotalScore,
\* weeklyScore, weeklyStreak, weeklyLongestStreak and lastResetWeekNumber; the
\* other columns keep their values, no Player row appears or disappears, and
\* the PlaySession, StreakRecord and ReferralGrant tables are left as they were.
C19_SweepFrame ==
    [][lastOp'.op \in {"sweep", "sweepAgain"}
       => /\ DOMAIN players' = DOMAIN players
          /\ \A w \in DOMAIN players :
                players'[w] =
                   [players[w] EXCEPT
                       !.lifetimeTotalScore = players'[w].lifetimeTotalScore,
                       !.weeklyScore = players'[w].weeklyScore,
                       !.weeklyStreak = players'[w].weeklyStreak,
                       !.weeklyLongestStreak = players'[w].weeklyLongestStreak,
                       !.lastResetWeekNumber = players'[w].lastResetWeekNumber]
          /\ sessions' = sessions
          /\ streaks' = streaks
          /\ referrals' = referrals]_vars

\* a sweep has just reset a player who has played, holds a streak and a grant
C19_Witness ==
    /\ lastOp.op = "sweep"
    /\ lastOp.updates = 1
    /\ "0xAB" \in DOMAIN players
    /\ players["0xAB"].totalScore > 0
    /\ players["0xAB"].currentStreak > 0
    /\ players["0xAB"].lifetimeTotalScore > 0
    /\ streaks # {}
    /\ referrals # << >>

\* C20: when a sweep run for the new week index c has completed, every Player
\* row that existed when it selected its players has lastResetWeekNumber = c,
\* whether its weeklyScore was 0 or its lastResetWeekNumber was null, and the
\* lifetimeTotalScore of a player whose weeklyScore was 0 is unchanged.
C20_EveryPlayerReachesTheWeek ==
    [][SweepStep
       => \A w \in DOMAIN players :
             /\ players'[w].lastResetWeekNumber = calculateCurrentWeekNumber(now)
             /\ players[w].weeklyScore = 0
                   => players'[w].lifetimeTotalScore = players[w].lifetimeTotalScore]_vars

\* a sweep has just moved a player who had never played and never been reset
C20_Witness ==
    /\ lastOp.op = "sweep"
    /\ lastOp.updates = 1
    /\ "0xAB" \in DOMAIN players
    /\ players["0xAB"].lastPlayDate = NULL
    /\ players["0xAB"].lifetimeTotalScore = 0
    /\ players["0xAB"].lastResetWeekNumber = calculateCurrentWeekNumber(now)
    /\ Len(snapshots) = 1
    /\ snapshots[1].weeklyScore = 0

\* the base plays a wallet has left: the allowance of one play per virtual
\* day since launch, less the sessions that were not paid for by the grant
BaseLeft(w, ss, grants) ==
    LET t == Len(ss[players[w].id])
        used == IF ToLowerCase(w) \in DOMAIN grants
                THEN grants[ToLowerCase(w)].extraPlaysUsed ELSE 0
    IN  Max(0, Max(1, DaysSinceLaunch(now) + 1) - (t - used))

SessionCreated(p, ss) ==
    /\ procs[p].sessionAt > 0
    /\ Len(ss[procs[p].player[1].id]) >= procs[p].sessionAt
    /\ ss[procs[p].player[1].id][procs[p].sessionAt].playerId = procs[p].player[1].id

\* the handler p takes the step that ends the call
Returns(p) == procs[p].pc # "idle" /\ procs'[p].pc = "idle"

\* C14: under every interleaving of submissions of one wallet there is at
\* most one StreakRecord per (playerId, virtual day); a submission whose
\* insert collides with the record of that day goes on to the next call
\* instead of failing, and when it returns its PlaySession has been created
\* and the Player row updated, and the answer is not a conflict.
C14_StreakInsertCollisionIsBenign ==
    [][/\ \A r1, r2 \in streaks' :
             (r1.playerId = r2.playerId /\ r1.streakDate = r2.streakDate) => r1 = r2
       /\ \A p \in SubmitProcs :
             /\ (procs[p].pc = "streak" /\ procs'[p].collided)
                   => procs'[p].pc = "referral"
             /\ (procs[p].collided /\ Returns(p))
                   => /\ SessionCreated(p, sessions)
                      /\ procs[p].updated
                      /\ lastOp'.op = "submit"
                      /\ lastOp'.httpStatus # 409]_vars

\* a submission whose streak insert collided has created its session and
\* updated the ledger
C14_Witness ==
    \E p \in SubmitProcs :
       /\ procs[p].collided
       /\ procs[p].updated
       /\ SessionCreated(p, sessions)
       /\ Cardinality(streaks) = 1

\* C15: for every ReferralGrant, in every reachable state including the
\* interleavings of concurrent submissions of the wallet,
\* 0 <= extraPlaysUsed <= extraPlaysTotal, and extraPlaysUsed never decreases
\* from one state to the next.
C15_GrantUseIsMonotone ==
    [][\A k \in DOMAIN referrals' :
          /\ 0 <= referrals'[k].extraPlaysUsed
          /\ referrals'[k].extraPlaysUsed <= referrals'[k].extraPlaysTotal
          /\ k \in DOMAIN referrals
                => referrals'[k].extraPlaysUsed >= referrals[k].extraPlaysUsed]_vars

\* C17: within one submitScore call the PlaySession is created before the
\* Player row is updated, and the Player row is updated before the player
\* cache entry is deleted; so in every state in which a call has updated the
\* Player row (or gone on to delete the cache entry) its session is in the
\* PlaySession table for a reader to count.
C17_SessionThenLedgerThenCache ==
    [][\A p \in SubmitProcs :
          /\ (~procs[p].updated /\ procs'[p].updated)
                => SessionCreated(p, sessions)
          /\ (procs[p].pc = "del" /\ Returns(p))
                => procs[p].updated /\ SessionCreated(p, sessions)
          /\ procs[p].updated
                => CountSessions(sessions, procs[p].player[1].id) >= procs[p].sessionAt
                   /\ SessionCreated(p, sessions)]_vars

\* a call is about to delete the cache entry: its session is in the table and
\* the row carries its score, while the other call is still in flight
C17_Witness ==
    /\ procs["submit1"].pc = "del"
    /\ procs["submit1"].updated
    /\ procs["submit1"].sessionAt = 1
    /\ players["0xAB"].totalScore > 0
    /\ "0xAB" \in DOMAIN playerCache
    /\ procs["submit2"].pc = "session"

\* C18: if a cache invalidation step (deleting the player entry or the
\* leaderboard entries) fails after the PlaySession has been created and the
\* Player row updated, submitScore still returns the created session with
\* status 201.
C18_CacheFailureIsNotAnError ==
    [][\A p \in SubmitProcs :
          (procs[p].pc = "del" /\ Returns(p)
             /\ procs[p].updated /\ SessionCreated(p, sessions))
          => lastOp' = Outcome("submit", 201, 0)]_vars

\* the sum of finalScore over the sessions list[from..Len(list)]
RECURSIVE SumFinalScore(_, _)
SumFinalScore(list, from) ==
    IF from > Len(list) THEN 0
    ELSE list[from].finalScore + SumFinalScore(list, from + 1)

\* lifetimeTotalScore + weeklyScore of a wallet in a Player table
ScoreHeld(table, w) ==
    IF w \in DOMAIN table
    THEN table[w].lifetimeTotalScore + table[w].weeklyScore ELSE 0

\* C11: in weekly mode, once one sweep run and the submitScore calls of a
\* wallet that were in flight with it have all finished, the player's
\* lifetimeTotalScore + weeklyScore equals the value of that sum before they
\* started plus the sum of finalScore over the sessions created meanwhile.
C11_RolloverKeepsEveryScore ==
    (AllIdle /\ epoch.sweeps = 1 /\ epoch.submits >= 1)
    => \A w \in DOMAIN players :
          ScoreHeld(players, w)
             = ScoreHeld(epoch.rows, w)
               + SumFinalScore(sessions[players[w].id],
                               epoch.played[players[w].id] + 1)

\* the last of at least two sweep runs that were in flight together has just
\* finished, and a week boundary lay between the stored week and the clock
\* when they began
ReplicasRaced ==
    /\ AllIdle
    /\ lastOp.op = "sweep"
    /\ epoch.sweeps >= 2
    /\ epoch.submits = 0
    /\ ResetNeeded(epoch.week, calculateCurrentWeekNumber(now))

MaxStreakBasis == 4
\* largest per-day increment an operator configures, in tenths
MaxIncrement == 2
\* base multipliers an operator configures, in tenths
BaseMultipliers == {5, 10, 15}

\* a pair of streak bases and a multiplier configuration, not yet evaluated
InitMultiplier ==
    /\ InitState
    /\ ~settings.weeklyResetEnabled
    /\ \E base \in BaseMultipliers, increment \in 0..MaxIncrement,
          b1 \in 0..MaxStreakBasis, b2 \in 0..MaxStreakBasis :
          calc = [fn |-> "calculateStreakMultiplier",
                  settings |-> [streakBaseMultiplier |-> base,
                                streakIncrementPerDay |-> increment],
                  b1 |-> b1, b2 |-> b2, done |-> FALSE, m1 |-> NULL, m2 |-> NULL]

\* calculateStreakMultiplier applied to both bases
EvalStreakMultiplier ==
    /\ calc # NoCalc
    /\ calc.fn = "calculateStreakMultiplier"
    /\ ~calc.done
    /\ calc' = [calc EXCEPT !.done = TRUE,
                            !.m1 = calculateStreakMultiplierFor(calc.settings, calc.b1),
                            !.m2 = calculateStreakMultiplierFor(calc.settings, calc.b2)]
    /\ UNCHANGED <<now, settings, settingsCache, players, playerCache, sessions,
                   streaks, snapshots, referrals, lastOp, lastStatus, procs, epoch>>

NextMultiplier == EvalStreakMultiplier

SpecMultiplier == InitMultiplier /\ [][NextMultiplier]_vars

\* C21: for every streak basis b >= 0 and every non-negative increment, the
\* multiplier is at least the base multiplier, it never decreases when the
\* basis grows, and the bases 0 and 1 both give exactly the base multiplier.
C21_MultiplierIsMonotone ==
    (calc # NoCalc /\ calc.fn = "calculateStreakMultiplier" /\ calc.done) =>
        /\ calc.m1 >= calc.settings.streakBaseMultiplier
        /\ calc.m2 >= calc.settings.streakBaseMultiplier
        /\ (calc.b1 <= calc.b2 => calc.m1 <= calc.m2)
        /\ (calc.b1 \in {0, 1} => calc.m1 = calc.settings.streakBaseMultiplier)
        /\ (calc.b2 \in {0, 1} => calc.m2 = calc.settings.streakBaseMultiplier)

\* bases 1 and 3 evaluated with a positive increment: the first gives the base,
\* the second strictly more
C21_Witness ==
    /\ calc # NoCalc /\ calc.fn = "calculateStreakMultiplier" /\ calc.done
    /\ calc.settings.streakIncrementPerDay > 0
    /\ calc.b1 = 1 /\ calc.b2 = 3
    /\ calc.m1 = calc.settings.streakBaseMultiplier
    /\ calc.m2 = calc.m1 + 2 * calc.settings.streakIncrementPerDay

\* ---------------------------------------------------------------------------
\* The status query writes nothing but a missing Player row
\* ---------------------------------------------------------------------------

\* the row prisma.player.create leaves for a wallet: every counter zero, no play date
FreshRow(row) ==
    /\ row.totalScore = 0 /\ row.lifetimeTotalScore = 0 /\ row.weeklyScore = 0
    /\ row.currentStreak = 0 /\ row.longestStreak = 0
    /\ row.weeklyStreak = 0 /\ row.weeklyLongestStreak = 0
    /\ row.lastPlayDate = NULL

\* C22: getPlayerStatus for a wallet that has a Player row changes no Player
\* row, no PlaySession, no StreakRecord, no ReferralGrant and no Settings field;
\* for an unknown wallet its only durable effect is one new Player row with all
\* score and streak counters zero and lastPlayDate null.
C22_StatusFrame ==
    [][\A w \in Wallets :
          GetPlayerStatus(w, TRUE) =>
              /\ UNCHANGED <<settings, sessions, streaks, referrals, snapshots>>
              /\ \A v \in DOMAIN players :
                    v \in DOMAIN players' /\ players'[v] = players[v]
              /\ DOMAIN players' = DOMAIN players \cup {w}
              /\ (w \notin DOMAIN players => FreshRow(players'[w]))]_vars

\* a status was just answered for a wallet that had no row, while another wallet
\* already has sessions: the new row is the only thing that was written
C22_Witness ==
    /\ lastStatus # << >>
    /\ lastStatus[1].walletAddress \in DOMAIN players
    /\ FreshRow(players[lastStatus[1].walletAddress])
    /\ sessions[players[lastStatus[1].walletAddress].id] = << >>
    /\ \E v \in DOMAIN players :
          /\ v # lastStatus[1].walletAddress
          /\ sessions[players[v].id] # << >>

\* ---------------------------------------------------------------------------
\* When the next play becomes available
\* ---------------------------------------------------------------------------

\* C24: whenever getPlayerStatus returns canPlay = false, nextAvailableAt is the
\* start of the next virtual day (launch midnight + (day index of now + 1) day
\* lengths) and secondsToNextPlay lies between 0 and the day length in seconds;
\* whenever it returns canPlay = true both fields are null.
C24_NextAvailableIsNextDayStart ==
    lastStatus # << >> =>
        LET r == lastStatus[1]
        IN  IF r.canPlay
            THEN r.nextAvailableAt = NULL /\ r.secondsToNextPlay = NULL
            ELSE /\ r.nextAvailableAt = launchMs + (DaysSinceLaunch(now) + 1) * dayMs
                 /\ 0 <= r.secondsToNextPlay
                 /\ r.secondsToNextPlay <= SecondsPerDay

\* a status answered in the middle of a virtual day for a player out of plays
C24_Witness ==
    /\ lastStatus # << >>
    /\ ~lastStatus[1].canPlay
    /\ now # launchMs + DaysSinceLaunch(now) * dayMs
    /\ lastStatus[1].nextAvailableAt > now
    /\ lastStatus[1].secondsToNextPlay # NULL

\* ---------------------------------------------------------------------------
\* Two streak lines in weekly mode
\* ---------------------------------------------------------------------------

\* the stored row says wallet w has not played on virtual day d yet
FirstPlayOfDay(w, d) ==
    \/ StoredRow(w).lastPlayDate = NULL
    \/ DaysSinceLaunch(StoredRow(w).lastPlayDate) < d

\* C25: with weekly reset enabled, an accepted first play of the day applies the
\* streak transition to the lifetime line (currentStreak, longestStreak) and to
\* the weekly line (weeklyStreak, weeklyLongestStreak) separately, each from its
\* own stored value; each longest streak keeps the maximum it has seen.
C25_TwoStreakLines ==
    [][\A w \in Wallets :
          (settings.weeklyResetEnabled /\ Accepted(w)
              /\ FirstPlayOfDay(w, DaysSinceLaunch(now))) =>
             LET d == DaysSinceLaunch(now)
                 row == StoredRow(w)
                 lifetime == StreakAfterPlay(row.lastPlayDate, row.currentStreak, d)
                 weekly == StreakAfterPlay(row.lastPlayDate, row.weeklyStreak, d)
             IN  /\ players'[w].currentStreak = lifetime
                 /\ players'[w].longestStreak = Max(row.longestStreak, lifetime)
                 /\ players'[w].weeklyStreak = weekly
                 /\ players'[w].weeklyLongestStreak
                       = Max(row.weeklyLongestStreak, weekly)]_vars

\* ---------------------------------------------------------------------------
\* The order of the writes of one submission
\* ---------------------------------------------------------------------------

\* C26: within one accepted submitScore the PlaySession is created before the
\* StreakRecord of that play: at no moment is there a StreakRecord for a player
\* and a virtual day without a PlaySession of that player on that day.
C26_SessionBeforeStreakRecord ==
    \A r \in streaks :
        \E i \in 1..Len(sessions[r.playerId]) :
            sessions[r.playerId][i].playDate = r.streakDate

\* ---------------------------------------------------------------------------
\* Two submissions of one wallet at once
\* ---------------------------------------------------------------------------

\* totalScore of wallet w in a Player table, 0 when it has no row
TotalScoreIn(table, w) == IF w \in DOMAIN table THEN table[w].totalScore ELSE 0

\* C28: when two submitScore calls for the same wallet run concurrently and both
\* are accepted, then after both have finished Player.totalScore equals its
\* previous value plus the finalScore of both created sessions.
C28_ConcurrentSubmitsBothCount ==
    (AllIdle /\ epoch.submits >= 2)
    => \A w \in DOMAIN players :
          players[w].totalScore
             = TotalScoreIn(epoch.rows, w)
               + SumFinalScore(sessions[players[w].id],
                               epoch.played[players[w].id] + 1)

\* ---------------------------------------------------------------------------
\* A sweep run that is interrupted
\* ---------------------------------------------------------------------------

\* no handler is between two of its awaited calls
NoneRunning == \A p \in DOMAIN procs : procs[p].pc \in {"idle", "crashed"}

\* the replica dies, or a database call throws, after gameSettings.update
\* (line 116) and before the reset loop (lines 158-172) has updated every
\* selected player; procs[p] keeps the week and the players still to update
SweepInterrupt(p) ==
    /\ procs[p].pc \in {"select", "snapshots", "reset"}
    /\ procs' = [procs EXCEPT ![p].pc = "crashed"]
    /\ lastOp' = Other
    /\ UNCHANGED <<now, settings, settingsCache, players, playerCache, sessions,
                   streaks, snapshots, referrals, lastStatus, epoch, calc>>

\* the next cron tick or manual trigger after the interruption
LaterSweepStart(p, interrupted) ==
    procs[interrupted].pc = "crashed" /\ SweepStart(p)

RestSubmitScore(w, score, maxSessions) ==
    NoneRunning /\ SubmitScore(w, score, maxSessions)

RestAdvanceTime(jumps, maxDays) == NoneRunning /\ AdvanceTime(jumps, maxDays)

NextInterrupt ==
    \/ RestAdvanceTime({DaysPerWeek * dayMs}, MaxRaceWeeks * DaysPerWeek)
    \/ SettingsCacheExpire
    \/ \E w \in Wallets, score \in Scores :
          RestSubmitScore(w, score, MaxSweepRaceSessions)
    \/ SweepStart("sweep1")
    \/ SweepSettings("sweep1")
    \/ SweepInterrupt("sweep1")
    \/ LaterSweepStart("sweep2", "sweep1")
    \/ SweepSettings("sweep2")
    \/ \E p \in SweepProcs : SweepSelect(p)
    \/ \E p \in SweepProcs : SweepSnapshots(p)
    \/ \E p \in SweepProcs : SweepReset(p)

\* weekly mode: a sweep run may be interrupted, later runs follow
SpecInterrupt == InitWeekly /\ [][NextInterrupt]_vars

\* C27: if a sweep run is interrupted after it has advanced
\* Settings.currentWeekNumber to c and before it has updated every selected
\* player, a later sweep run during the same week c resets the remaining
\* players: once that later run has finished, every player the interrupted run
\* had still to update has lastResetWeekNumber = c.
C27_LaterSweepFinishesTheReset ==
    (/\ procs["sweep1"].pc = "crashed"
     /\ procs["sweep2"].pc = "idle"
     /\ lastOp.op = "sweep"
     /\ calculateCurrentWeekNumber(now) = procs["sweep1"].week)
    => \A i \in 1..Len(procs["sweep1"].selected) :
          players[procs["sweep1"].selected[i].walletAddress].lastResetWeekNumber
             = procs["sweep1"].week

\* ---------------------------------------------------------------------------
\* The leaderboard computed from the database
\* ---------------------------------------------------------------------------

\* largest page size and page number a client asks for
MaxLimit == 2
MaxPage == 2
\* plays of the leaderboard scenario, all wallets together
MaxBoardSessions == 2

\* no userAddress query parameter
NoWallet == ""

\* the column the leaderboard is ordered by
BoardScore(useWeeklyScores, row) ==
    IF useWeeklyScores THEN row.weeklyScore ELSE row.totalScore

\* orderBy [{score: 'desc'}, {id: 'asc'}]: row a comes before row b
BoardBefore(useWeeklyScores, a, b) ==
    \/ BoardScore(useWeeklyScores, a) > BoardScore(useWeeklyScores, b)
    \/ /\ BoardScore(useWeeklyScores, a) = BoardScore(useWeeklyScores, b)
       /\ a.id < b.id

\* player.findMany with that orderBy, before skip and take
RECURSIVE BoardOrder(_, _, _)
BoardOrder(table, useWeeklyScores, remaining) ==
    IF remaining = {} THEN << >>
    ELSE LET first == CHOOSE w \in remaining :
                         \A v \in remaining \ {w} :
                            BoardBefore(useWeeklyScores, table[w], table[v])
         IN  <<first>> \o BoardOrder(table, useWeeklyScores, remaining \ {first})

\* variant of the count that ignores the tie-break on id
PlayersAbove_StrictOnly(table, useWeeklyScores, user) ==
    Cardinality({w \in DOMAIN table :
                    BoardScore(useWeeklyScores, table[w])
                        > BoardScore(useWeeklyScores, user)})

\* player.count where score > userScore OR (score = userScore AND id < userId)
PlayersAbove(table, useWeeklyScores, user) ==
    Cardinality({w \in DOMAIN table :
                    \/ BoardScore(useWeeklyScores, table[w])
                          > BoardScore(useWeeklyScores, user)
                    \/ /\ BoardScore(useWeeklyScores, table[w])
                             = BoardScore(useWeeklyScores, user)
                       /\ table[w].id < user.id})

\* the response of getLeaderboard on a cache miss
Leaderboard(s, table, limit, page, userWalletAddress) ==
    LET useWeeklyScores == s.weeklyResetEnabled
        skip == (page - 1) * limit
        order == BoardOrder(table, useWeeklyScores, DOMAIN table)
        taken == SubSeq(order, skip + 1, Min(skip + limit, Len(order)))
    IN  [entries |-> [index \in 1..Len(taken) |->
                        [rank |-> skip + (index - 1) + 1,
                         walletAddress |-> taken[index],
                         totalScore |-> BoardScore(useWeeklyScores, table[taken[index]])]],
         total |-> Cardinality(DOMAIN table),
         userRank |-> IF userWalletAddress # NoWallet
                         /\ userWalletAddress \in DOMAIN table
                      THEN PlayersAbove(table, useWeeklyScores,
                                        table[userWalletAddress]) + 1
                      ELSE NULL,
         weeklyResetEnabled |-> useWeeklyScores]

\* GET /leaderboard answered from the database
GetLeaderboard(limit, page, userWalletAddress) ==
    /\ calc = NoCalc
    /\ calc' = [fn |-> "getLeaderboard", limit |-> limit, page |-> page,
                userWalletAddress |-> userWalletAddress,
                result |-> Leaderboard(getSettings, players, limit, page,
                                       userWalletAddress)]
    /\ settingsCache' = SettingsCacheAfterGet
    /\ lastOp' = Other
    /\ UNCHANGED <<now, settings, players, playerCache, sessions, streaks,
                   snapshots, referrals, lastStatus, procs, epoch>>

\* the response has been sent
LeaderboardReturn ==
    /\ calc # NoCalc
    /\ calc' = NoCalc
    /\ lastOp' = Other
    /\ UNCHANGED <<now, settings, settingsCache, players, playerCache, sessions,
                   streaks, snapshots, referrals, lastStatus, procs, epoch>>

\* the other operations, between two leaderboard requests
BoardAdvanceTime == calc = NoCalc /\ AdvanceTime({dayMs}, MaxPairDays)

BoardSubmitScore(w, score) ==
    calc = NoCalc /\ SubmitScore(w, score, MaxBoardSessions)

BoardSweep == calc = NoCalc /\ CheckAndPerformReset

NextBoard ==
    \/ BoardAdvanceTime
    \/ \E w \in Wallets, score \in Scores : BoardSubmitScore(w, score)
    \/ BoardSweep
    \/ LeaderboardReturn
    \/ \E limit \in 1..MaxLimit, page \in 1..MaxPage,
          userWalletAddress \in Wallets \cup {NoWallet} :
          GetLeaderboard(limit, page, userWalletAddress)

\* two wallets play, the sweep runs, the leaderboard is read page by page
SpecBoard == Init /\ [][NextBoard]_vars

\* the leaderboard request whose response is in calc was answered by this step
BoardAnswered == calc = NoCalc /\ calc' # NoCalc

\* C23: on a cache miss the entries are ordered by the mode's score (weeklyScore
\* when weekly reset is enabled, totalScore otherwise) descending with ties
\* broken by ascending player id, the entry at position i (from 1) of page p
\* carries rank (p-1)*limit + i, and the userRank returned for a wallet is the
\* rank that wallet's entry carries in that ordering.
C23_LeaderboardRanks ==
    [][BoardAnswered =>
          LET r == calc'.result
              weekly == settings.weeklyResetEnabled
              score(w) == IF weekly THEN players[w].weeklyScore
                          ELSE players[w].totalScore
              \* the rank of wallet w in the full ordering: one more than the
              \* number of rows that sort before it
              rankOf(w) == 1 + Cardinality({v \in DOMAIN players :
                                \/ score(v) > score(w)
                                \/ score(v) = score(w)
                                   /\ players[v].id < players[w].id})
              n == Len(r.entries)
              expected == Max(0, Min(calc'.limit,
                                     Cardinality(DOMAIN players)
                                        - (calc'.page - 1) * calc'.limit))
          IN  /\ n = expected
              /\ \A i \in 1..n :
                    /\ r.entries[i].walletAddress \in DOMAIN players
                    /\ r.entries[i].rank = (calc'.page - 1) * calc'.limit + i
                    /\ r.entries[i].rank = rankOf(r.entries[i].walletAddress)
                    /\ r.entries[i].totalScore = score(r.entries[i].walletAddress)
              /\ \A i, j \in 1..n :
                    i < j =>
                       \/ r.entries[i].totalScore > r.entries[j].totalScore
                       \/ /\ r.entries[i].totalScore = r.entries[j].totalScore
                          /\ players[r.entries[i].walletAddress].id
                                < players[r.entries[j].walletAddress].id
              /\ IF calc'.userWalletAddress \in DOMAIN players
                 THEN r.userRank = rankOf(calc'.userWalletAddress)
                 ELSE r.userRank = NULL]_vars

\* page 2 of size 1 answered for the wallet that is second only by its id: two
\* players tie on a positive score, the entry carries rank 2 and so does userRank
C23_Witness ==
    /\ calc # NoCalc /\ calc.fn = "getLeaderboard"
    /\ calc.limit = 1 /\ calc.page = 2
    /\ Len(calc.result.entries) = 1
    /\ calc.result.entries[1].walletAddress = calc.userWalletAddress
    /\ calc.result.entries[1].rank = 2
    /\ calc.result.userRank = 2
    /\ calc.result.entries[1].totalScore > 0
    /\ \E v \in DOMAIN players :
          /\ v # calc.userWalletAddress
          /\ BoardScore(settings.weeklyResetEnabled, players[v])
                = calc.result.entries[1].totalScore

\* ---------------------------------------------------------------------------
\* Calendar weeks (secondsPerDay null): time in hours since launch midnight
\* ---------------------------------------------------------------------------

HoursPerDay == 24
\* the hour of the reset day, UTC, at which a week starts
ResetHour == 1
\* days after the launch date on which the calendar functions are evaluated
MaxCalendarDays == 15
\* weekdays, 0 = Sunday
Weekdays == 0..(DaysPerWeek - 1)

\* getUTCDay() and getUTCHours() of the instant t, for a launch on weekday launchDay
UTCDay(launchDay, t) == (launchDay + (t \div HoursPerDay)) % DaysPerWeek
UTCHours(t) == t % HoursPerDay

\* WeeklyResetService.calculateCurrentWeekNumber, calendar branch
calculateCurrentWeekNumberCalendar(launchDay, resetDay, t) ==
    LET currentDay == UTCDay(launchDay, t)
        currentHour == UTCHours(t)
        byWeekday == (currentDay - resetDay + DaysPerWeek) % DaysPerWeek
        daysToSubtract == IF byWeekday = 0 /\ currentHour < ResetHour
                          THEN DaysPerWeek ELSE byWeekday
        \* weekStart: midnight of the day daysToSubtract days before t
        weekStart == ((t \div HoursPerDay) - daysToSubtract) * HoursPerDay
        weekMs == DaysPerWeek * HoursPerDay
        \* launchDate.getTime(): launch midnight is the origin of t
        launchDate == 0
        weeksSinceLaunch == (weekStart - launchDate) \div weekMs
    IN  Max(0, weeksSinceLaunch)

\* GameService.calculateNextResetTime, calendar branch
calculateNextResetTimeCalendar(launchDay, resetDay, t) ==
    LET currentDay == UTCDay(launchDay, t)
        currentHour == UTCHours(t)
        byWeekday == (resetDay - currentDay + DaysPerWeek) % DaysPerWeek
        daysUntilReset == IF byWeekday = 0 /\ currentHour >= ResetHour
                          THEN DaysPerWeek ELSE byWeekday
    IN  ((t \div HoursPerDay) + daysUntilReset) * HoursPerDay + ResetHour

\* GameService.calculateNextResetTime, virtual branch
calculateNextResetTime(t) ==
    LET daysSinceLaunch == (t - launchMs) \div dayMs
        currentWeek == daysSinceLaunch \div DaysPerWeek
    IN  launchMs + (currentWeek + 1) * DaysPerWeek * dayMs

\* a launch weekday, a reset weekday and an instant, not yet evaluated
InitCalendar ==
    /\ InitState
    /\ settings.weeklyResetEnabled
    /\ \E launchDay \in Weekdays, resetDay \in Weekdays,
          t \in 0..(MaxCalendarDays * HoursPerDay + HoursPerDay - 1) :
          calc = [fn |-> "calendar", launchDay |-> launchDay, resetDay |-> resetDay,
                  t |-> t, done |-> FALSE, week |-> NULL, nextResetTime |-> NULL]

\* the sweep computes the week of t, the leaderboard computes the next reset
EvalCalendar ==
    /\ calc # NoCalc
    /\ calc.fn = "calendar"
    /\ ~calc.done
    /\ calc' = [calc EXCEPT
                   !.done = TRUE,
                   !.week = calculateCurrentWeekNumberCalendar(
                                calc.launchDay, calc.resetDay, calc.t),
                   !.nextResetTime = calculateNextResetTimeCalendar(
                                calc.launchDay, calc.resetDay, calc.t)]
    /\ UNCHANGED <<now, settings, settingsCache, players, playerCache, sessions,
                   streaks, snapshots, referrals, lastOp, lastStatus, procs, epoch>>

NextCalendar == EvalCalendar

SpecCalendar == InitCalendar /\ [][NextCalendar]_vars

\* the reset instants (resetDay at 01:00 UTC) from the week before launch on
ResetInstants(launchDay, resetDay) ==
    {day * HoursPerDay + ResetHour :
        day \in {x \in (0 - DaysPerWeek)..(MaxCalendarDays + 2 * DaysPerWeek) :
                    (launchDay + x + DaysPerWeek) % DaysPerWeek = resetDay}}

\* the start of the reset-aligned week that holds the launch date
LaunchWeekStart(launchDay, resetDay) ==
    (0 - ((launchDay - resetDay + DaysPerWeek) % DaysPerWeek)) * HoursPerDay
        + ResetHour

\* C29: in calendar mode, for every launch weekday and every weeklyResetDay, the
\* week index the sweep computes for an instant t is the number of reset
\* instants (weeklyResetDay at 01:00 UTC) that lie after the reset-aligned start
\* of the launch week and at or before t.
C29_CalendarWeekCountsResets ==
    (calc # NoCalc /\ calc.fn = "calendar" /\ calc.done) =>
        calc.week
           = Cardinality({r \in ResetInstants(calc.launchDay, calc.resetDay) :
                            /\ r > LaunchWeekStart(calc.launchDay, calc.resetDay)
                            /\ r <= calc.t})

\* ---------------------------------------------------------------------------
\* The next reset time the leaderboard announces
\* ---------------------------------------------------------------------------

\* an instant of virtual time, on the half-day grid, not yet evaluated
InitVirtualWeek ==
    /\ InitState
    /\ settings.weeklyResetEnabled
    /\ \E k \in 0..(2 * DaysPerWeek * MaxWeeks) :
          calc = [fn |-> "virtual", launchDay |-> 0, resetDay |-> 0,
                  t |-> launchMs + k * halfDayMs, done |-> FALSE,
                  week |-> NULL, nextResetTime |-> NULL]

\* virtual mode: the sweep computes the week of t, the leaderboard the next reset
EvalVirtual ==
    /\ calc # NoCalc
    /\ calc.fn = "virtual"
    /\ ~calc.done
    /\ calc' = [calc EXCEPT
                   !.done = TRUE,
                   !.week = calculateCurrentWeekNumber(calc.t),
                   !.nextResetTime = calculateNextResetTime(calc.t)]
    /\ UNCHANGED <<now, settings, settingsCache, players, playerCache, sessions,
                   streaks, snapshots, referrals, lastOp, lastStatus, procs, epoch>>

InitResetTime == InitCalendar \/ InitVirtualWeek

NextResetTime == EvalCalendar \/ EvalVirtual

\* the leaderboard's next reset time next to the sweep's week index, both modes
SpecResetTime == InitResetTime /\ [][NextResetTime]_vars

\* the week index the sweep computes at instant u, in the mode of the evaluation
SweepWeekAt(u) ==
    IF calc.fn = "virtual" THEN calculateCurrentWeekNumber(u)
    ELSE calculateCurrentWeekNumberCalendar(calc.launchDay, calc.resetDay, u)

\* C30: the nextResetTime returned by getLeaderboard at instant t is the first
\* instant after t at which the week index computed by the sweep becomes
\* greater than its value at t; in virtual mode it equals launch midnight +
\* (floor(dayIndex / 7) + 1) * 7 * dayMs.
C30_NextResetIsNextWeekChange ==
    (calc # NoCalc /\ calc.fn \in {"virtual", "calendar"} /\ calc.done) =>
        /\ calc.nextResetTime > calc.t
        /\ SweepWeekAt(calc.nextResetTime) > SweepWeekAt(calc.t)
        /\ \A u \in (calc.t + 1)..(calc.nextResetTime - 1) :
              SweepWeekAt(u) = SweepWeekAt(calc.t)
        /\ calc.fn = "virtual" =>
              calc.nextResetTime
                 = launchMs + ((DaysSinceLaunch(calc.t) \div DaysPerWeek) + 1)
                                 * DaysPerWeek * dayMs

\* ---------------------------------------------------------------------------
\* The early returns of the sweep
\* ---------------------------------------------------------------------------

NextGuard ==
    \/ QuietAdvanceTime({DaysPerWeek * dayMs}, MaxRaceWeeks * DaysPerWeek)
    \/ SettingsCacheExpire
    \/ \E w \in {"0xAB"}, score \in Scores :
          QuietSubmitScore(w, score, MaxSweepRaceSessions)
    \/ SweepStart("sweep1")
    \/ SweepSettings("sweep1")
    \/ SweepSelect("sweep1")
    \/ SweepSnapshots("sweep1")
    \/ SweepReset("sweep1")

\* weekly reset on or off: one replica runs the sweep call by call
SpecGuard == Init /\ [][NextGuard]_vars

\* the step is the first awaited call of a checkAndPerformReset run
SweepCalled(p) ==
    /\ procs[p].pc = "idle"
    /\ procs'[p].pc # "idle" \/ lastOp'.op = "sweep"

ScenarioScores == {375, 400, 500, 1000}
MaxScenarioDays == 3
MaxScenarioSessions == 4

NextScenario ==
    \/ AdvanceTime({dayMs}, MaxScenarioDays)
    \/ \E w \in {"0xAB"}, score \in ScenarioScores :
          SubmitScore(w, score, MaxScenarioSessions)

\* weekly mode, one wallet that plays day after day
SpecScenario == InitWeekly /\ [][NextScenario]_vars

\* the step is an accepted consecutive-day submission of raw score 1000 by a
\* player whose stored weekly streak is 3 and whose stored weeklyScore is 2000
StreakThreePlay(w) ==
    /\ settings.weeklyResetEnabled
    /\ Accepted(w)
    /\ Created(w).score = 1000
    /\ w \in DOMAIN players
    /\ players[w].weeklyStreak = 3
    /\ players[w].weeklyScore = 2000
    /\ players[w].lastPlayDate # NULL
    /\ DaysSinceLaunch(players[w].lastPlayDate) = DaysSinceLaunch(now) - 1

C33_LifetimeFigureMatchesTotal ==
    (lastStatus # << >> /\ ~lastStatus[1].weeklyResetEnabled)
        => lastStatus[1].lifetimeTotalScore = lastStatus[1].totalScore

\* ---------------------------------------------------------------------------
\* Two submissions of one wallet with one play left
\* ---------------------------------------------------------------------------

\* sessions the overshoot specification lets a wallet reach: one more than the
\* quota of the launch day, 1 + RaceExtraPlays
MaxOvershootSessions == 4

NextQuotaRace ==
    \/ \E w \in {"0xAB"} : PlayerCacheExpire(w)
    \/ \E p \in SubmitProcs, w \in {"0xAB"} : SubmitFind(p, w)
    \/ \E p \in SubmitProcs : SubmitStatus(p, MaxOvershootSessions)
    \/ \E p \in SubmitProcs : SubmitStreak(p)
    \/ \E p \in SubmitProcs : SubmitReferral(p)
    \/ \E p \in SubmitProcs, score \in {100} : SubmitSession(p, score)
    \/ \E p \in SubmitProcs : SubmitGrant(p)
    \/ \E p \in SubmitProcs, score \in {100} : SubmitUpdate(p, score)
    \/ \E p \in SubmitProcs : SubmitDel(p, TRUE, TRUE)

\* two submissions of one wallet in flight at once on the launch day, with
\* room in the tables for one PlaySession more than the wallet's quota
SpecQuotaRace == InitSubmitRace /\ [][NextQuotaRace]_vars

\* the plays wallet w is entitled to up to now: one per virtual day since
\* launch plus the plays of its referral grant
PlaysAllowed(w) ==
    (DaysSinceLaunch(now) + 1)
       + (IF HasReferral(w) THEN Referral(w).extraPlaysTotal ELSE 0)

\* C34: when two submitScore calls of one wallet run concurrently while the
\* wallet has exactly one play remaining, at most one of them is accepted: in
\* no interleaving does the wallet's number of PlaySession rows exceed
\* (virtualDayIndex(now) + 1) + extraPlaysTotal.
C34_OnePlayLeftAdmitsOne ==
    \A w \in DOMAIN players :
        CountSessions(sessions, players[w].id) <= PlaysAllowed(w)

\* ---------------------------------------------------------------------------
\* The Player row a submission starts from
\* ---------------------------------------------------------------------------

\* C35: a submitScore call never computes its Player update from a cached row
\* older than the database row: the row an accepted submission of an existing
\* player works on is the stored one, and the totals it writes are the stored
\* totals plus its finalScore (after a rollover it adds to weeklyScore 0).
C35_SubmitStartsFromStoredRow ==
    [][\A w \in DOMAIN players :
          Accepted(w) =>
             /\ \A f \in {"totalScore", "weeklyScore", "currentStreak", "longestStreak",
                         "weeklyStreak", "weeklyLongestStreak", "lastPlayDate"} :
                   findOrCreatePlayer(w)[f] = players[w][f]
             /\ players'[w].totalScore
                   = players[w].totalScore + Created(w).finalScore
             /\ settings.weeklyResetEnabled =>
                   players'[w].weeklyScore
                      = players[w].weeklyScore + Created(w).finalScore]_vars

\* ---------------------------------------------------------------------------
\* The weekly score and the sessions of the week
\* ---------------------------------------------------------------------------

\* the sum of finalScore over the sessions list[from..Len(list)] that are
\* stamped with week number w
RECURSIVE WeekFinalScore(_, _, _)
WeekFinalScore(list, from, w) ==
    IF from > Len(list) THEN 0
    ELSE (IF list[from].weekNumber = w THEN list[from].finalScore ELSE 0)
            + WeekFinalScore(list, from + 1, w)

\* C36: in weekly mode, once the sweep for the current week has completed
\* (the player's row was rolled over for it), the player's weeklyScore equals
\* the sum of finalScore over the player's PlaySessions stamped with that
\* week, also when the sweep ran after plays of that week.
C36_WeeklyScoreIsTheWeeksSessions ==
    settings.weeklyResetEnabled =>
        \A w \in DOMAIN players :
            players[w].lastResetWeekNumber = calculateCurrentWeekNumber(now)
               => players[w].weeklyScore
                     = WeekFinalScore(sessions[players[w].id], 1,
                                      players[w].lastResetWeekNumber)

\* ---------------------------------------------------------------------------
\* The week stamped on a session and the week of the sweep
\* ---------------------------------------------------------------------------

\* GameService.calculateWeekNumber, calendar branch, for the instant `date`
calculateWeekNumberCalendar(launchDay, resetDay, date) ==
    LET launchDaysToSubtract == (launchDay - resetDay + DaysPerWeek) % DaysPerWeek
        \* launch midnight is the origin of time
        launchWeekStart == (0 - launchDaysToSubtract) * HoursPerDay
        dateDay == UTCDay(launchDay, date)
        dateHour == UTCHours(date)
        byWeekday == (dateDay - resetDay + DaysPerWeek) % DaysPerWeek
        daysToSubtract == IF byWeekday = 0 /\ dateHour < ResetHour
                          THEN DaysPerWeek ELSE byWeekday
        weekStart == ((date \div HoursPerDay) - daysToSubtract) * HoursPerDay
        weekMs == DaysPerWeek * HoursPerDay
        weeksSinceLaunch == (weekStart - launchWeekStart) \div weekMs
    IN  Max(0, weeksSinceLaunch)

\* getGameDayInfo(settings).today with secondsPerDay null: the UTC midnight of
\* the day of t
TodayCalendar(t) == Max(0, t \div HoursPerDay) * HoursPerDay

\* submitScore, line 463: the week number of a session submitted at t, calendar mode
SessionWeekCalendar(launchDay, resetDay, t) ==
    calculateWeekNumberCalendar(launchDay, resetDay, TodayCalendar(t))

\* submitScore, line 463: the week number of a session submitted at t, virtual mode
SessionWeek(t) == calculateWeekNumber(getGameDayInfo(t).today)

\* a submission instant, in calendar mode or in virtual mode, not yet evaluated
InitStamp ==
    /\ InitState
    /\ settings.weeklyResetEnabled
    /\ \/ \E launchDay \in Weekdays, resetDay \in Weekdays,
             t \in 0..(MaxCalendarDays * HoursPerDay + HoursPerDay - 1) :
             calc = [fn |-> "stampCalendar", launchDay |-> launchDay,
                     resetDay |-> resetDay, t |-> t, done |-> FALSE,
                     weekNumber |-> NULL, sweepWeek |-> NULL]
       \/ \E k \in 0..(2 * DaysPerWeek * MaxWeeks) :
             calc = [fn |-> "stampVirtual", launchDay |-> 0, resetDay |-> 0,
                     t |-> launchMs + k * halfDayMs, done |-> FALSE,
                     weekNumber |-> NULL, sweepWeek |-> NULL]

\* calendar mode: submitScore stamps a session at t, the sweep computes its week at t
EvalStampCalendar ==
    /\ calc # NoCalc
    /\ calc.fn = "stampCalendar"
    /\ ~calc.done
    /\ calc' = [calc EXCEPT
                   !.done = TRUE,
                   !.weekNumber = SessionWeekCalendar(calc.launchDay, calc.resetDay,
                                                      calc.t),
                   !.sweepWeek = calculateCurrentWeekNumberCalendar(
                                     calc.launchDay, calc.resetDay, calc.t)]
    /\ UNCHANGED <<now, settings, settingsCache, players, playerCache, sessions,
                   streaks, snapshots, referrals, lastOp, lastStatus, procs, epoch>>

\* virtual mode: submitScore stamps a session at t, the sweep computes its week at t
EvalStampVirtual ==
    /\ calc # NoCalc
    /\ calc.fn = "stampVirtual"
    /\ ~calc.done
    /\ calc' = [calc EXCEPT
                   !.done = TRUE,
                   !.weekNumber = SessionWeek(calc.t),
                   !.sweepWeek = calculateCurrentWeekNumber(calc.t)]
    /\ UNCHANGED <<now, settings, settingsCache, players, playerCache, sessions,
                   streaks, snapshots, referrals, lastOp, lastStatus, procs, epoch>>

NextStamp == EvalStampCalendar \/ EvalStampVirtual

\* the week number of a session next to the sweep's week index, both modes
SpecStamp == InitStamp /\ [][NextStamp]_vars

\* C37: for every instant t at or after launch and every settings value, in
\* virtual mode and in calendar mode, the weekNumber stamped on a PlaySession
\* submitted at t equals the week index the sweep computes at t.
C37_SessionWeekIsSweepWeek ==
    (calc # NoCalc /\ calc.fn \in {"stampCalendar", "stampVirtual"} /\ calc.done)
        => calc.weekNumber = calc.sweepWeek

\* ---------------------------------------------------------------------------
\* Longest streaks
\* ---------------------------------------------------------------------------

\* virtual days over which the streaks are followed day by day
MaxStreakDays == 2
\* sessions a wallet may hold in the streak specification
MaxStreakSessions == 3

NextStreaks ==
    \/ AdvanceTime({dayMs}, MaxStreakDays)
    \/ AdvanceTime({DaysPerWeek * dayMs}, DaysPerWeek + MaxStreakDays)
    \/ \E w \in {"0xAB"} : PlayerCacheExpire(w)
    \/ SettingsCacheExpire
    \/ \E w \in {"0xAB"} : GetPlayerStatus(w, FALSE)
    \/ \E w \in {"0xAB"}, score \in Scores : SubmitScore(w, score, MaxStreakSessions)
    \/ CheckAndPerformReset

\* one wallet, submissions and sweep runs one after the other, the clock moving
\* day by day in the launch week and by a week into the next one
SpecStreaks == Init /\ [][NextStreaks]_vars

\* C38: with fixed settings, from a freshly created player and after any
\* sequence of sequential submissions and sweep runs, every Player row has
\* longestStreak >= currentStreak and weeklyLongestStreak >= weeklyStreak, and
\* longestStreak never decreases.
C38_LongestStreaksDominate ==
    [][\A w \in DOMAIN players' :
          /\ players'[w].longestStreak >= players'[w].currentStreak
          /\ players'[w].weeklyLongestStreak >= players'[w].weeklyStreak
          /\ w \in DOMAIN players
                => players'[w].longestStreak >= players[w].longestStreak]_vars

\* after two consecutive days, a gap and a sweep run, the player has played
\* again: the longest streak stays above the current one
C38_Witness ==
    /\ "0xAB" \in DOMAIN players
    /\ settings.weeklyResetEnabled
    /\ players["0xAB"].longestStreak = 2
    /\ players["0xAB"].currentStreak = 1
    /\ players["0xAB"].lastResetWeekNumber # NULL
    /\ players["0xAB"].weeklyStreak >= 1
    /\ Len(sessions[players["0xAB"].id]) = 3

====
